---- MODULE Spec2Model ----
(***************************************************************************)
(* Model of the Streamlit-in-Snowflake donor targeting application         *)
(* (streamlit_in_snowflake_app.py): the filter, the H3 aggregation, the    *)
(* boundary resolver get_h3_boundaries_from_snowflake and the fallback     *)
(* chain of map builders driven by main.                                   *)
(***************************************************************************)
EXTENDS Integers, Sequences, FiniteSets, TLC

\* ------------------------------------------------------------------ bounds
\* Longest donor roster loaded by load_donor_data in the model.
MaxRecords == 2
\* Longest cell list handed directly to the boundary resolver is
\* CandidateCap + ExtraCells.
ExtraCells == 2
\* Donors, each in a cell of their own, of the larger record sets handed
\* directly to create_h3_on_the_fly: ManyCells and ManyCells + 1.
ManyCells == 11

\* ------------------------------------------------------- program constants
\* h3_cells_list[:50]
CandidateCap == 50
\* h3_list[:10]
CellCap == 10
\* "Valid polygon needs at least 3 points"
MinVertices == 3

\* A null / NaN / None value of a column or of a cell id.
NULL == -1

\* ---------------------------------------------------------------- helpers
Range(s) == {s[i] : i \in 1..Len(s)}

Min2(a, b) == IF a <= b THEN a ELSE b

\* s[:n] of Python.
Take(s, n) == SubSeq(s, 1, Min2(n, Len(s)))

RECURSIVE SelectIdx(_, _)
\* The subsequence of s at the positions in keep, in the order of s.
SelectIdx(s, keep) ==
    IF s = <<>> THEN <<>>
    ELSE LET n == Len(s)
             front == SelectIdx(SubSeq(s, 1, n - 1), keep)
         IN IF n \in keep THEN Append(front, s[n]) ELSE front

RECURSIVE SumField(_, _)
\* Sum of the field fld over the records of s.
SumField(s, fld) ==
    IF s = <<>> THEN 0 ELSE s[1][fld] + SumField(Tail(s), fld)

\* ---------------------------------------------------------------- records
Rec(zip, year, amt, cum, seg, lat, lon, h3) ==
    [ZIP_CODE |-> zip, GRADUATION_YEAR |-> year,
     ANNUAL_DONATION_AMOUNT |-> amt, CUMULATIVE_DONATION_AMOUNT |-> cum,
     DONOR_SEGMENT |-> seg, LATITUDE |-> lat, LONGITUDE |-> lon,
     H3_LEVEL |-> h3]

\* The rows a roster is drawn from: two donors that share a cell at the
\* coarse resolutions, a donor elsewhere, a donor without latitude, a donor
\* with coordinates but no cumulative amount, a donor whose latitude is
\* beyond 90 degrees, a donor who gave nothing and a donor without longitude
\* whose row carries an H3 value all the same.
RecordPool ==
    { Rec("29680", 1990, 100, 1000, "Annual Donor", 0, 0, 1),
      Rec("29680", 2005, 12000, 50000, "Major Donor", 1, 0, 1),
      Rec("29650", 2005, 5000, 9000, "Mid-Level Donor", 2, 2, 2),
      Rec("29650", 1990, 300, 700, "Annual Donor", NULL, 0, NULL),
      Rec("29680", 2005, 300, NULL, "Annual Donor", 1, 1, 2),
      Rec("29607", 1990, 300, 700, "Annual Donor", 95, 0, 4),
      Rec("29650", 2005, 0, 0, "Annual Donor", 2, 3, 3),
      Rec("29607", 2005, 5000, 9000, "Mid-Level Donor", 0, NULL, 4) }

\* A donor whose graduation year is null and one whose annual amount is.
NoYear == Rec("29680", NULL, 300, 700, "Annual Donor", 1, 1, 2)

NoAmount == Rec("29650", 2005, NULL, 9000, "Mid-Level Donor", 2, 2, 2)

\* Rosters with such donors, alone and beside complete ones.
IncompleteRosters ==
    LET complete == Rec("29680", 1990, 100, 1000, "Annual Donor", 0, 0, 1)
    IN { <<NoYear>>, <<NoAmount>>, <<complete, NoYear>>,
         <<NoAmount, complete>>, <<NoYear, NoAmount>> }

Rosters ==
    UNION {[1..n -> RecordPool] : n \in 0..MaxRecords} \cup IncompleteRosters

Resolutions == {7, 8, 9}

\* ---------------------------------------------------------- apply_filters
\* A range test that leaves both bounds out.
InRangeExclusive(v, range) == v # NULL /\ v > range[1] /\ v < range[2]

\* (df[c] >= range[0]) & (df[c] <= range[1]); a comparison with NaN is False.
InRange(v, range) ==
    /\ v # NULL /\ range[1] # NULL /\ range[2] # NULL
    /\ v >= range[1] /\ v <= range[2]

\* isin applied also to an empty selection.
FilterZipStrict(df, zips) ==
    SelectIdx(df, {i \in 1..Len(df) : df[i].ZIP_CODE \in zips})

\* "if zip_codes:" and isin (lines 104-105)
FilterZip(df, zips) ==
    IF zips # {}
    THEN SelectIdx(df, {i \in 1..Len(df) : df[i].ZIP_CODE \in zips})
    ELSE df

\* A year filter that lets the rows without a graduation year through.
FilterYearKeepsNull(df, years) ==
    IF years = <<>> THEN df
    ELSE SelectIdx(df, {i \in 1..Len(df) :
                          \/ df[i].GRADUATION_YEAR = NULL
                          \/ InRange(df[i].GRADUATION_YEAR, years)})

\* "if grad_years:" and the two comparisons (lines 107-111)
FilterYear(df, years) ==
    IF years # <<>>
    THEN SelectIdx(df, {i \in 1..Len(df) :
                          InRange(df[i].GRADUATION_YEAR, years)})
    ELSE df

\* An amount filter that also drops the first row it matches.
FilterAmountSkipFirst(df, amounts) ==
    IF amounts # <<>>
    THEN LET kept == SelectIdx(df, {i \in 1..Len(df) :
                          InRange(df[i].ANNUAL_DONATION_AMOUNT, amounts)})
         IN IF kept = <<>> THEN kept ELSE Tail(kept)
    ELSE df

\* "if donation_range:" and the two comparisons (lines 113-117)
FilterAmount(df, amounts) ==
    IF amounts # <<>>
    THEN SelectIdx(df, {i \in 1..Len(df) :
                          InRange(df[i].ANNUAL_DONATION_AMOUNT, amounts)})
    ELSE df

\* A segment filter that keeps the first matching row only.
FilterSegmentFirstMatch(df, segments) ==
    IF segments # {}
    THEN Take(SelectIdx(df, {i \in 1..Len(df) :
                               df[i].DONOR_SEGMENT \in segments}), 1)
    ELSE df

\* "if donor_segments:" and isin (lines 119-120)
FilterSegment(df, segments) ==
    IF segments # {}
    THEN SelectIdx(df, {i \in 1..Len(df) : df[i].DONOR_SEGMENT \in segments})
    ELSE df

\* A copy with the rows in reverse order.
CopyReversed(df) == [i \in 1..Len(df) |-> df[Len(df) + 1 - i]]

\* df.copy() (line 102): the same rows in the same order, in a new frame.
CopyOf(df) == df

apply_filters(df, zips, years, amounts, segments) ==
    FilterSegment(FilterAmount(FilterYear(FilterZip(CopyOf(df), zips), years),
                               amounts),
                  segments)

\* ------------------------------------------------------------ aggregation
\* A test of the longitude alone.
HasLongitudeOnly(r) == r.LONGITUDE # NULL

\* df.dropna(subset=['LATITUDE', 'LONGITUDE'])
HasCoords(r) == r.LATITUDE # NULL /\ r.LONGITUDE # NULL

\* A scatter map that keeps every row.
DropNaCoordsKeepAll(df) == df

DropNaCoords(df) == SelectIdx(df, {i \in 1..Len(df) : HasCoords(df[i])})

\* A dropna over the two amount columns only.
DropNaAmountsOnly(df) ==
    SelectIdx(df, {i \in 1..Len(df) :
                     /\ df[i].ANNUAL_DONATION_AMOUNT # NULL
                     /\ df[i].CUMULATIVE_DONATION_AMOUNT # NULL})

\* df[[LATITUDE, LONGITUDE, ANNUAL_..., CUMULATIVE_...]].dropna()
DropNaAll(df) ==
    SelectIdx(df, {i \in 1..Len(df) :
                     /\ HasCoords(df[i])
                     /\ df[i].ANNUAL_DONATION_AMOUNT # NULL
                     /\ df[i].CUMULATIVE_DONATION_AMOUNT # NULL})

\* Side of a cell, in coordinate units, at each resolution.
CellSide(resolution) ==
    CASE resolution = 7 -> 4 [] resolution = 8 -> 2 [] OTHER -> 1

\* H3_LATLNG_TO_CELL_STRING(LATITUDE, LONGITUDE, resolution)
CellOf(lat, lon, resolution) ==
    resolution * 100 + (lat \div CellSide(resolution)) * 10
        + (lon \div CellSide(resolution))

\* Value of the column H3_LEVEL_<resolution> of a row.
H3Column(r, resolution) ==
    IF r.H3_LEVEL = NULL THEN NULL ELSE resolution * 100 + r.H3_LEVEL

NonNull(s, fld) == SelectIdx(s, {i \in 1..Len(s) : s[i][fld] # NULL})

\* One row of the aggregate for the rows of one cell.
AggRow(cell, rows) ==
    [H3_CELL |-> cell,
     DONOR_COUNT |-> Len(rows),
     TOTAL_ANNUAL |-> SumField(rows, "ANNUAL_DONATION_AMOUNT"),
     TOTAL_CUMULATIVE |-> SumField(rows, "CUMULATIVE_DONATION_AMOUNT"),
     LAT_SUM |-> SumField(rows, "LATITUDE"),
     LON_SUM |-> SumField(rows, "LONGITUDE")]

\* group_by("H3_CELL").agg(count, sum, avg ...) over valid_data.
SnowparkGroups(valid_data, resolution) ==
    LET cellAt(i) == CellOf(valid_data[i].LATITUDE, valid_data[i].LONGITUDE,
                            resolution)
        cells == {cellAt(i) : i \in 1..Len(valid_data)}
    IN { AggRow(c, SelectIdx(valid_data,
                             {i \in 1..Len(valid_data) : cellAt(i) = c}))
         : c \in cells }

\* df.groupby(h3_column).agg(sum, mean, count ...): rows with a null key are
\* dropped, count and the sums skip null values.
PandasGroups(df, resolution) ==
    LET keyAt(i) == H3Column(df[i], resolution)
        cells == {keyAt(i) : i \in 1..Len(df)} \ {NULL}
        rowsOf(c) == SelectIdx(df, {i \in 1..Len(df) : keyAt(i) = c})
    IN { [H3_CELL |-> c,
          DONOR_COUNT |-> Len(NonNull(rowsOf(c), "ANNUAL_DONATION_AMOUNT")),
          TOTAL_ANNUAL |-> SumField(NonNull(rowsOf(c), "ANNUAL_DONATION_AMOUNT"),
                                    "ANNUAL_DONATION_AMOUNT"),
          TOTAL_CUMULATIVE |->
              SumField(NonNull(rowsOf(c), "CUMULATIVE_DONATION_AMOUNT"),
                       "CUMULATIVE_DONATION_AMOUNT"),
          LAT_SUM |-> SumField(NonNull(rowsOf(c), "LATITUDE"), "LATITUDE"),
          LON_SUM |-> SumField(NonNull(rowsOf(c), "LONGITUDE"), "LONGITUDE")]
         : c \in cells }

\* The orders in which a set of aggregate rows can come back.
Orderings(groups) ==
    {s \in [1..Cardinality(groups) -> groups] :
        \A i, j \in 1..Cardinality(groups) : i # j => s[i] # s[j]}

RECURSIVE OrderByTotalDesc(_)
\* .order_by(col("TOTAL_ANNUAL").desc()): a row of the largest total comes
\* first, ties come back in any order.
OrderByTotalDesc(groups) ==
    IF groups = {} THEN {<<>>}
    ELSE LET top == {g \in groups :
                       \A h \in groups : h.TOTAL_ANNUAL <= g.TOTAL_ANNUAL}
         IN UNION {{<<g>> \o s : s \in OrderByTotalDesc(groups \ {g})}
                   : g \in top}

\* ------------------------------------------------------ boundary capability
\* One coordinate token of a boundary text, as split(', ') yields it.  idn
\* identifies the token: float() of its latitude text is 2 * idn and of its
\* longitude text 2 * idn + 1.  shape is "pair" for 'lon lat', "nospace" for
\* a token without blank and "triple" for a token of three parts; latOk and
\* lonOk say whether the part parses as a number.
Token(idn, shape, lonOk, latOk) ==
    [idn |-> idn, shape |-> shape, lonOk |-> lonOk, latOk |-> latOk]

Good(idn) == Token(idn, "pair", TRUE, TRUE)

\* What session.sql(boundary_query).collect() can do for one cell: raise,
\* return no row, or return a row whose BOUNDARY_WKT is null, is a text
\* without POLYGON, or is a POLYGON text with the given tokens.
Reply(kind, polygon, tokens) ==
    [kind |-> kind, polygon |-> polygon, tokens |-> tokens]

ReplyCatalogue ==
    << Reply("row", TRUE, <<Good(1), Good(2), Good(3), Good(4)>>),
       Reply("raise", FALSE, <<>>),
       Reply("row", TRUE, <<Good(1), Good(2)>>),
       Reply("norows", FALSE, <<>>),
       Reply("row", TRUE, <<Token(1, "pair", FALSE, TRUE),
                            Token(2, "pair", FALSE, TRUE),
                            Token(3, "pair", FALSE, TRUE)>>),
       Reply("null", FALSE, <<>>),
       Reply("row", TRUE, <<Good(1), Token(2, "pair", FALSE, TRUE),
                            Good(3), Good(4)>>),
       Reply("row", FALSE, <<Good(1), Good(2), Good(3)>>),
       Reply("row", TRUE, <<Good(1), Token(2, "pair", TRUE, FALSE), Good(3),
                            Token(4, "nospace", TRUE, TRUE),
                            Token(5, "triple", TRUE, TRUE), Good(6)>>) >>

\* The remote capability answers each cell by its id: the environment
\* (envA, envB) fixes which reply each cell gets.
ReplyIndex(cell, a, b) == ((a * cell + b) % Len(ReplyCatalogue)) + 1

Environments == {0, 1} \X (0..(Len(ReplyCatalogue) - 1))

\* Body of "for pair in coord_pairs": acc is [lats, lons] so far.
ParsePair(acc, tok) ==
    IF tok.shape # "pair" \/ ~tok.latOk
    THEN acc
    ELSE IF tok.lonOk
         THEN [lats |-> Append(acc.lats, 2 * tok.idn),
               lons |-> Append(acc.lons, 2 * tok.idn + 1)]
         ELSE [lats |-> Append(acc.lats, 2 * tok.idn), lons |-> acc.lons]

RECURSIVE ParseTokens(_)
\* The lats and lons lists after the loop over coord_pairs.
ParseTokens(tokens) ==
    IF tokens = <<>> THEN [lats |-> <<>>, lons |-> <<>>]
    ELSE ParsePair(ParseTokens(SubSeq(tokens, 1, Len(tokens) - 1)),
                   tokens[Len(tokens)])

\* The tokens of a text that parse into a complete (lat, lon) vertex.
ValidPairs(tokens) ==
    {i \in 1..Len(tokens) :
        tokens[i].shape = "pair" /\ tokens[i].latOk /\ tokens[i].lonOk}

\* len(lats) >= 3
EnoughPoints(parsed) == Len(parsed.lats) >= MinVertices

\* What one iteration of the loop over h3_list[:10] appends to
\* boundaries_data for the reply it gets.
CellBoundary(h3_cell, reply) ==
    IF reply.kind = "row" /\ reply.polygon
    THEN LET parsed == ParseTokens(reply.tokens)
         IN IF EnoughPoints(parsed)
            THEN << [h3_cell |-> h3_cell, lats |-> parsed.lats,
                     lons |-> parsed.lons] >>
            ELSE <<>>
    ELSE <<>>

\* The candidate list without the cut at 50.
CandidateListUncapped(cells) ==
    SelectIdx(cells, {i \in 1..Len(cells) : cells[i] # NULL})

\* [str(cell) for cell in h3_cells_list[:50] if pd.notna(cell)]
CandidateList(cells) ==
    LET head == Take(cells, CandidateCap)
    IN SelectIdx(head, {i \in 1..Len(head) : head[i] # NULL})

\* A loop over the whole candidate list.
ProcessedCellsAll(h3_list_) == h3_list_

\* h3_list[:10]
ProcessedCells(h3_list_) == Take(h3_list_, CellCap)

\* ------------------------------------------------------------------ state
VARIABLES
    pc,                 \* where the program is
    donors,             \* donors_df, the loaded roster
    hasH3Col,           \* whether donors_df has the H3_LEVEL_<r> columns
    hasCumulative,      \* whether it has CUMULATIVE_DONATION_AMOUNT
    missing_columns,    \* required columns that donors_df lacks
    zip_codes,          \* arguments of a direct call of apply_filters
    grad_years,
    donation_range,
    donor_segments,
    filtered,           \* filtered_df of the pass
    map_type,           \* "H3 Hexagonal Grid" or "Individual Points"
    h3_resolution,      \* resolution handed to the map builders
    h3_agg,             \* the aggregate of the pass, ordered
    tried,              \* strategies entered in this pass, in order
    raised,             \* exceptions raised in this pass, in order
    result,             \* what the map builder returned
    handed,             \* render results given to st.*_chart / st.error
    errors,             \* st.error messages of the pass, in order
    drawn,              \* what the returned figure draws, in order
    table_rows,         \* rows of filtered_df shown by the record tables
    caller,             \* who called get_h3_boundaries_from_snowflake
    h3_cells,           \* its argument: [isNone, cells]
    h3_list,            \* its candidate list
    cell_i,             \* cells of h3_list[:10] already processed
    boundaries_data,    \* its result list
    function_available, \* "unset", "yes" or "no"
    notice,             \* message shown by the probe: none, warning, error
    probes,             \* number of probe queries issued by the call
    requests,           \* cells requested by the call, in order
    replies,            \* catalogue index of the reply to each request
    env,                \* the environment <<envA, envB>> of the call
    boundaries,         \* the resolver's return value, at its caller
    retUnavailable,     \* return values seen with the capability unavailable
    retAvailableZero,   \* return values seen with it available, none resolved
    session_zip_codes,  \* st.session_state.zip_codes: [present, value]
    session_donor_segments, \* st.session_state.donor_segments, likewise
    sidebar,            \* the latest run of the zip and segment controls:
                        \* buttons, defaults, selections handed on
    earlier             \* an earlier pass: [seen, inputs, outcome]

vars == << pc, donors, hasH3Col, hasCumulative, missing_columns, zip_codes,
           grad_years, session_zip_codes, session_donor_segments, sidebar,
           earlier,
           donation_range, donor_segments, filtered, map_type, h3_resolution,
           h3_agg, tried, raised, result, handed, errors, drawn, table_rows,
           caller, h3_cells, h3_list, cell_i, boundaries_data,
           function_available, notice, probes, requests, replies, env,
           boundaries, retUnavailable, retAvailableZero >>

filterArgs == << zip_codes, grad_years, donation_range, donor_segments >>

\* What lives across the passes of one browser session.
sessionVars == << session_zip_codes, session_donor_segments, sidebar,
                 earlier >>

\* What the steps of a pass after the sidebar read and never write.
inputVars == << donors, hasH3Col, hasCumulative, missing_columns, filterArgs,
               sessionVars >>

appVars == << inputVars, filtered, map_type, h3_resolution, h3_agg, tried,
              raised, result, handed, errors, drawn, table_rows >>

resolverLocals == << h3_list, cell_i, boundaries_data, function_available,
                     notice, probes, requests, replies, env >>

history == << retUnavailable, retAvailableZero >>

\* ------------------------------------- get_h3_boundaries_from_snowflake
\* Lines 300-316: the early returns and the candidate list.
ResEntry ==
    /\ pc = "res_entry"
    /\ IF h3_cells.isNone \/ Len(h3_cells.cells) = 0
       THEN /\ pc' = "res_return"
            /\ h3_list' = <<>>
       ELSE /\ h3_list' = CandidateList(h3_cells.cells)
            /\ pc' = IF h3_list' = <<>> THEN "res_return" ELSE "res_probe"
    /\ boundaries_data' = <<>>
    /\ UNCHANGED << appVars, caller, h3_cells, cell_i, function_available,
                    notice, probes, requests, replies, env, boundaries,
                    history >>

ProbeOutcomes == {"ok", "unknown_function", "other_error"}

\* function_available after the probe.
ProbeAvailable(outcome) == IF outcome = "ok" THEN "yes" ELSE "no"

\* A probe that reports only the "Unknown function" failure.
ProbeNoticeSilentError(outcome) ==
    IF outcome = "unknown_function" THEN "warning" ELSE "none"

\* The message of lines 325-329: st.warning for a missing function,
\* st.error for any other failure.
ProbeNotice(outcome) ==
    CASE outcome = "ok" -> "none"
      [] outcome = "unknown_function" -> "warning"
      [] OTHER -> "error"

\* A resolver without the early return of line 333.
AfterProbeNoReturn(available) == "res_cells"

\* if not function_available: return boundaries_data
AfterProbe(available) ==
    IF available = "yes" THEN "res_cells" ELSE "res_return"

\* Lines 318-333: the probe query and the return when it fails.
ResProbe ==
    /\ pc = "res_probe"
    /\ \E outcome \in ProbeOutcomes, e \in Environments :
        /\ probes' = probes + 1
        /\ function_available' = ProbeAvailable(outcome)
        /\ notice' = ProbeNotice(outcome)
        /\ env' = IF outcome = "ok" THEN e ELSE env
        /\ pc' = AfterProbe(function_available')
    /\ UNCHANGED << appVars, caller, h3_cells, h3_list, cell_i,
                    boundaries_data, requests, replies, boundaries, history >>

\* A loop that stops at the first request that raises.
LoopAdvanceAbort(i, n, reply) == IF reply.kind = "raise" THEN n ELSE i + 1

\* "except Exception as cell_error: continue": whatever the reply, the loop
\* goes on with the next of the n cells.
LoopAdvance(i, n, reply) == i + 1

\* Lines 343-396: one iteration of the loop over h3_list[:10].
ResCell ==
    /\ pc = "res_cells"
    /\ cell_i < Len(ProcessedCells(h3_list))
    /\ LET h3_cell == ProcessedCells(h3_list)[cell_i + 1]
           k == ReplyIndex(h3_cell, env[1], env[2])
       IN /\ requests' = Append(requests, h3_cell)
          /\ replies' = Append(replies, k)
          /\ boundaries_data' =
                 boundaries_data \o CellBoundary(h3_cell, ReplyCatalogue[k])
          /\ cell_i' = LoopAdvance(cell_i, Len(ProcessedCells(h3_list)),
                                   ReplyCatalogue[k])
    /\ UNCHANGED << pc, appVars, caller, h3_cells, h3_list,
                    function_available, notice, probes, env, boundaries,
                    history >>

\* End of the loop: fall through to the return at line 403.
ResLoopEnd ==
    /\ pc = "res_cells"
    /\ cell_i = Len(ProcessedCells(h3_list))
    /\ pc' = "res_return"
    /\ UNCHANGED << appVars, caller, h3_cells, resolverLocals, boundaries,
                    history >>

\* return boundaries_data (lines 304, 316, 333, 403).
ResReturn ==
    /\ pc = "res_return"
    /\ boundaries' = boundaries_data
    /\ pc' = IF caller = "create_h3_on_the_fly" THEN "otf_build"
             ELSE "res_done"
    /\ retUnavailable' =
           IF function_available = "no"
           THEN retUnavailable \cup {boundaries_data} ELSE retUnavailable
    /\ retAvailableZero' =
           IF function_available = "yes" /\ boundaries_data = <<>>
           THEN retAvailableZero \cup {boundaries_data} ELSE retAvailableZero
    /\ UNCHANGED << appVars, caller, h3_cells, resolverLocals >>

\* ------------------------------------------------ the resolver called alone
NullPatterns == {"none", "all", "odd", "head", "fifty"}

\* A cell list of length n whose cell at position p is p, or null where the
\* pattern says so ("head": all but the last five candidates are null;
\* "fifty": the first 50 entries are null).
CellList(n, pattern) ==
    [p \in 1..n |->
        CASE pattern = "all" -> NULL
          [] pattern = "odd" -> IF p % 2 = 1 THEN NULL ELSE p
          [] pattern = "head" -> IF p <= CandidateCap - 5 THEN NULL ELSE p
          [] pattern = "fifty" -> IF p <= CandidateCap THEN NULL ELSE p
          [] OTHER -> p]

ListLengths ==
    (0..ExtraCells) \cup {CellCap + k : k \in 0..ExtraCells}
        \cup {CandidateCap + k : k \in 0..ExtraCells}

ResolverArgs ==
    {[isNone |-> TRUE, cells |-> <<>>]} \cup
    {[isNone |-> FALSE, cells |-> CellList(n, pat)] :
        n \in ListLengths, pat \in NullPatterns}

ResolverLocalsInit ==
    /\ h3_list = <<>>
    /\ cell_i = 0
    /\ boundaries_data = <<>>
    /\ function_available = "unset"
    /\ notice = "none"
    /\ probes = 0
    /\ requests = <<>>
    /\ replies = <<>>
    /\ env = <<0, 0>>

FilterArgsIdle ==
    /\ zip_codes = {}
    /\ grad_years = <<>>
    /\ donation_range = <<>>
    /\ donor_segments = {}

\* st.session_state of a new browser session, and no pass made yet.
SessionIdle ==
    /\ session_zip_codes = [present |-> FALSE, value |-> {}]
    /\ session_donor_segments = [present |-> FALSE, value |-> {}]
    /\ sidebar = [called |-> FALSE, zips |-> {}, segments |-> {},
                  zip_button |-> "none", segment_button |-> "none",
                  zip_default |-> {}, segment_default |-> {},
                  zip_hardcoded |-> FALSE, segment_all |-> FALSE]
    /\ earlier = [seen |-> FALSE, inputs |-> <<>>, outcome |-> <<>>]

AppIdle ==
    /\ donors = <<>>
    /\ hasH3Col = FALSE
    /\ hasCumulative = TRUE
    /\ SessionIdle
    /\ missing_columns = {}
    /\ FilterArgsIdle
    /\ errors = <<>>
    /\ drawn = <<>>
    /\ table_rows = <<>>
    /\ filtered = <<>>
    /\ map_type = "H3 Hexagonal Grid"
    /\ h3_resolution = 8
    /\ h3_agg = <<>>
    /\ tried = <<>>
    /\ raised = <<>>
    /\ result = "pending"
    /\ handed = <<>>

InitResolver ==
    /\ pc = "res_entry"
    /\ AppIdle
    /\ caller = "direct"
    /\ h3_cells \in ResolverArgs
    /\ ResolverLocalsInit
    /\ boundaries = <<>>
    /\ retUnavailable = {}
    /\ retAvailableZero = {}

\* The next direct call, with fresh locals.
ResCallAgain ==
    /\ pc = "res_done"
    /\ pc' = "res_entry"
    /\ h3_cells' \in ResolverArgs
    /\ h3_list' = <<>>
    /\ cell_i' = 0
    /\ boundaries_data' = <<>>
    /\ function_available' = "unset"
    /\ notice' = "none"
    /\ probes' = 0
    /\ requests' = <<>>
    /\ replies' = <<>>
    /\ env' = <<0, 0>>
    /\ UNCHANGED << appVars, caller, boundaries, history >>

NextResolver ==
    \/ ResEntry
    \/ ResProbe
    \/ ResCell
    \/ ResLoopEnd
    \/ ResReturn
    \/ ResCallAgain

SpecResolver == InitResolver /\ [][NextResolver]_vars

\* ------------------------------------------------------------------- main
passLocals == << filtered, map_type, h3_resolution, h3_agg, tried, raised,
                 result, handed, errors, drawn, table_rows >>

resolverVars == << caller, h3_cells, resolverLocals, boundaries >>

ZipOptions(df) == {df[i].ZIP_CODE : i \in 1..Len(df)}

SegmentOptions(df) == {df[i].DONOR_SEGMENT : i \in 1..Len(df)}

\* The (low, high) pairs a range slider over the column fld can return.
SliderRanges(df, fld) ==
    LET vals == {df[i][fld] : i \in 1..Len(df)} \ {NULL}
    IN {r \in vals \X vals : r[1] <= r[2]}

\* The columns main requires of donors_df (line 1026).
required_columns ==
    {"LATITUDE", "LONGITUDE", "ANNUAL_DONATION_AMOUNT", "DONOR_SEGMENT"}

\* The sets of required columns a loaded table can lack.
MissingChoices ==
    {{}} \cup {{c} : c \in required_columns} \cup {required_columns}

\* The first pass of a browser session, before its first statement.
FirstPass ==
    /\ pc = "main_load"
    /\ FilterArgsIdle
    /\ SessionIdle
    /\ filtered = <<>>
    /\ map_type = "H3 Hexagonal Grid"
    /\ h3_resolution = 8
    /\ h3_agg = <<>>
    /\ tried = <<>>
    /\ raised = <<>>
    /\ result = "pending"
    /\ handed = <<>>
    /\ errors = <<>>
    /\ drawn = <<>>
    /\ table_rows = <<>>
    /\ caller = "create_h3_on_the_fly"
    /\ h3_cells = [isNone |-> FALSE, cells |-> <<>>]
    /\ ResolverLocalsInit
    /\ boundaries = <<>>
    /\ retUnavailable = {}
    /\ retAvailableZero = {}

Init ==
    /\ donors \in Rosters
    /\ hasH3Col \in BOOLEAN
    /\ hasCumulative = TRUE
    /\ missing_columns \in MissingChoices
    /\ FirstPass

\* A load that goes on whatever columns are missing.
StopsOnMissingNever(missing) == FALSE

\* "if missing_columns:" (line 1029)
StopsOnMissing(missing) == missing # {}

\* Lines 1019-1042: load the tables; st.error and st.stop() when a required
\* column is missing, when the load raises, or when the roster is empty.
\* st.stop() leaves the script by a control-flow exception that
\* "except Exception" does not catch.
MainLoad ==
    /\ pc = "main_load"
    /\ \E loaded \in BOOLEAN :
        IF ~loaded
        THEN /\ errors' = Append(errors, "Error loading data")
             /\ pc' = "main_stopped"
        ELSE IF StopsOnMissing(missing_columns)
        THEN /\ errors' = Append(errors, "Missing required columns")
             /\ pc' = "main_stopped"
        ELSE IF Len(donors) = 0
        THEN /\ errors' = Append(errors, "No donor data found")
             /\ pc' = "main_stopped"
        ELSE /\ pc' = "main_filter"
             /\ UNCHANGED errors
    /\ UNCHANGED << inputVars, filtered, map_type, h3_resolution, h3_agg,
                    tried, raised, result, handed, drawn, table_rows,
                    resolverVars, history >>

\* int(donors_df['GRADUATION_YEAR'].min()) (line 1072) has a value: the
\* minimum of a column of nulls is NaN, and int(NaN) raises ValueError.
YearBoundsComputable(df) == SliderRanges(df, "GRADUATION_YEAR") # {}

\* The ranges the donation slider (lines 1083-1092) can return.  Over a
\* column of nulls its bounds are NaN: the slider raises or returns NaN
\* bounds, and no amount compares with them.
DonationRanges(df) ==
    IF SliderRanges(df, "ANNUAL_DONATION_AMOUNT") = {}
    THEN {<<NULL, NULL>>}
    ELSE SliderRanges(df, "ANNUAL_DONATION_AMOUNT")

\* Lines 1044-1120: the sidebar widgets and the call of apply_filters.  The
\* entries of st.session_state are followed in SpecSession.
MainFilter ==
    /\ pc = "main_filter"
    /\ IF ~YearBoundsComputable(donors)
       THEN /\ raised' = Append(raised, "ValueError")
            /\ pc' = "main_crashed"
            /\ UNCHANGED filtered
       ELSE \E zips \in SUBSET ZipOptions(donors),
               years \in SliderRanges(donors, "GRADUATION_YEAR"),
               amounts \in DonationRanges(donors),
               segments \in SUBSET SegmentOptions(donors),
               sliderRaises \in BOOLEAN :
              IF sliderRaises /\ amounts = <<NULL, NULL>>
              THEN /\ raised' = Append(raised, "StreamlitAPIException")
                   /\ pc' = "main_crashed"
                   /\ UNCHANGED filtered
              ELSE /\ filtered' = apply_filters(donors, zips, years, amounts,
                                                segments)
                   /\ pc' = "main_metrics"
                   /\ UNCHANGED raised
    /\ UNCHANGED << inputVars, map_type, h3_resolution, h3_agg, tried,
                    result, handed, errors, drawn, table_rows,
                    resolverVars, history >>

\* Whether the overview metrics (lines 1141-1179) can be computed: the
\* "Major Donors" delta divides by len(filtered_df).
MetricsComputable(df) == Len(df) # 0

\* Lines 1141-1179: the four overview metrics.
MainMetrics ==
    /\ pc = "main_metrics"
    /\ IF MetricsComputable(filtered)
       THEN /\ pc' = "main_mapctl"
            /\ UNCHANGED raised
       ELSE /\ pc' = "main_crashed"
            /\ raised' = Append(raised, "ZeroDivisionError")
    /\ UNCHANGED << inputVars, filtered, map_type, h3_resolution, h3_agg,
                    tried, result, handed, errors, drawn, table_rows,
                    resolverVars, history >>

\* A resolution control that is read whatever the map type is.
ResolutionAlwaysFromSlider(mt, slider) == slider

\* Lines 1229-1238: h3_resolution is 8 unless the H3 map is selected, and
\* then the slider (min 7, max 9) gives it.
ResolutionOf(mt, slider) ==
    IF mt = "H3 Hexagonal Grid" THEN slider ELSE 8

\* Lines 1218-1253 and 1288-1290: the map controls and the dispatch.
MainMapControls ==
    /\ pc = "main_mapctl"
    /\ \E mt \in {"H3 Hexagonal Grid", "Individual Points"}, r \in Resolutions :
        /\ map_type' = mt
        /\ h3_resolution' = ResolutionOf(mt, r)
        /\ pc' = IF mt = "H3 Hexagonal Grid" THEN "h3_pydeck" ELSE "point_map"
    /\ UNCHANGED << inputVars, filtered, h3_agg, tried, raised, result,
                    handed, errors, drawn, table_rows, resolverVars, history >>

\* A float of the program as a fraction <<numerator, denominator>> with a
\* positive denominator; NaN is what 0 / 0 gives.
NaN == <<0, 0>>

\* a < b on floats: False when either side is NaN.
Less(a, b) == a # NaN /\ b # NaN /\ a[1] * b[2] < b[1] * a[2]

\* max(a, b) of Python: b only when b > a.
PyMax(a, b) == IF Less(a, b) THEN b ELSE a

\* min(a, b) of Python: b only when b < a.
PyMin(a, b) == IF Less(b, a) THEN b ELSE a

\* h3_agg['TOTAL_ANNUAL'].max()
MaxTotal(agg) ==
    CHOOSE m \in {agg[i].TOTAL_ANNUAL : i \in 1..Len(agg)} :
        \A i \in 1..Len(agg) : agg[i].TOTAL_ANNUAL <= m

\* The ratio as it is, with no floor and no ceiling.
NormalizedUnclamped(donation_amount, max_donation) ==
    IF max_donation > 0 THEN <<donation_amount, max_donation>> ELSE <<0, 1>>

\* normalized = min(1.0, max(0.0, donation_amount / max_donation))
\*              if max_donation > 0 else 0            (line 437)
Normalized(donation_amount, max_donation) ==
    IF max_donation > 0
    THEN PyMin(<<1, 1>>, PyMax(<<0, 1>>, <<donation_amount, max_donation>>))
    ELSE <<0, 1>>

\* int(255 * x) for the float x nearest to num / den, 0 <= num <= den.  At
\* x = 0 and x = 1 the products of lines 440-442 are the integers 204, 255,
\* 153, 51 and 0 exactly.  Elsewhere, when 255 * num / den is an integer,
\* the double can lie just below it (green for 3 / 17 is 125, not 126), and
\* int() truncates.
Truncated(num, den, normalized) ==
    LET q == (255 * num) \div den
    IN IF (255 * num) % den = 0 /\ q > 0
          /\ normalized[1] # 0 /\ normalized[1] # normalized[2]
       THEN {q, q - 1} ELSE {q}

\* Lines 435-444: the colours get_color_for_donations can return, each
\* <<red, green, blue>>.
get_color_for_donations(donation_amount, max_donation) ==
    LET n == Normalized(donation_amount, max_donation)
        a == n[1]
        b == n[2]
    IN Truncated(4 * b + a, 5 * b, n)       \* 255 * (0.8 + 0.2 * n)
         \X Truncated(3 * (b - a), 5 * b, n)  \* 255 * (0.6 * (1 - n))
         \X Truncated(b - a, 5 * b, n)        \* 255 * (0.2 * (1 - n))

\* Lines 447-448: the aggregate with its colour column; max_donation is the
\* largest total.
Coloured(agg) ==
    LET colourOf(k) == get_color_for_donations(agg[k].TOTAL_ANNUAL,
                                               MaxTotal(agg))
        all == UNION {colourOf(k) : k \in 1..Len(agg)}
    IN { [k \in 1..Len(agg) |->
             [H3_CELL |-> agg[k].H3_CELL,
              DONOR_COUNT |-> agg[k].DONOR_COUNT,
              TOTAL_ANNUAL |-> agg[k].TOTAL_ANNUAL,
              TOTAL_CUMULATIVE |-> agg[k].TOTAL_CUMULATIVE,
              LAT_SUM |-> agg[k].LAT_SUM,
              LON_SUM |-> agg[k].LON_SUM,
              color |-> c[k]]]
         : c \in {f \in [1..Len(agg) -> all] :
                     \A k \in 1..Len(agg) : f[k] \in colourOf(k)} }

\* groupby sorts the groups by their key.
SortByCell(groups) ==
    CHOOSE s \in Orderings(groups) :
        \A i \in 1..(Len(s) - 1) : s[i].H3_CELL < s[i + 1].H3_CELL

\* ------------------- create_h3_hexagon_map / create_h3_hexagon_map_pydeck
\* A wrapper whose except clause lets every exception through.
WrapperCatchesNothing(exc) == FALSE

\* "except Exception as e" (line 512): what the PyDeck attempt raises is an
\* Exception subclass, so the clause catches it.
WrapperCatches(exc) == exc \in {"KeyError", "PyDeckError"}

\* Lines 405-515: the PyDeck attempt, with the wrapper's except branch.
\* The aggregation (lines 415-420) raises KeyError over a table without
\* CUMULATIVE_DONATION_AMOUNT.
H3Pydeck ==
    /\ pc = "h3_pydeck"
    /\ IF ~hasH3Col
       THEN /\ pc' = "otf_aggregate"
            /\ UNCHANGED << h3_agg, tried, raised, result, drawn >>
       ELSE IF ~hasCumulative
       THEN /\ raised' = Append(raised, "KeyError")
            /\ IF WrapperCatches("KeyError")
               THEN pc' = "h3_plotly_fallback" /\ UNCHANGED result
               ELSE pc' = "main_crashed" /\ result' = "raised"
            /\ UNCHANGED << h3_agg, tried, drawn >>
       ELSE /\ h3_agg' = SortByCell(PandasGroups(filtered, h3_resolution))
            /\ IF h3_agg' = <<>>
               THEN /\ pc' = "scatter"
                    /\ UNCHANGED << tried, raised, result, drawn >>
               ELSE /\ tried' = Append(tried, "S0")
                    /\ \E deckBuilt \in BOOLEAN :
                        IF deckBuilt
                        THEN /\ result' = "HexagonPolygons"
                             /\ drawn' \in Coloured(h3_agg')
                             /\ pc' = "main_present"
                             /\ UNCHANGED raised
                        ELSE /\ raised' = Append(raised, "PyDeckError")
                             /\ IF WrapperCatches("PyDeckError")
                                THEN /\ pc' = "h3_plotly_fallback"
                                     /\ UNCHANGED result
                                ELSE /\ pc' = "main_crashed"
                                     /\ result' = "raised"
                             /\ UNCHANGED drawn
    /\ UNCHANGED << inputVars, filtered, map_type, h3_resolution, handed,
                    errors, table_rows, resolverVars, history >>

\* Lines 517-590: create_h3_hexagon_map_plotly_fallback, called from the
\* wrapper's except branch (line 515) outside any try: the KeyError of its
\* aggregation (lines 527-532) leaves create_h3_hexagon_map and main.
H3PlotlyFallback ==
    /\ pc = "h3_plotly_fallback"
    /\ IF ~hasH3Col
       THEN /\ pc' = "otf_aggregate"
            /\ UNCHANGED << h3_agg, tried, raised, result, drawn >>
       ELSE IF ~hasCumulative
       THEN /\ raised' = Append(raised, "KeyError")
            /\ result' = "raised"
            /\ pc' = "main_crashed"
            /\ UNCHANGED << h3_agg, tried, drawn >>
       ELSE /\ h3_agg' = SortByCell(PandasGroups(filtered, h3_resolution))
            /\ UNCHANGED raised
            /\ IF h3_agg' = <<>>
               THEN /\ pc' = "scatter"
                    /\ UNCHANGED << tried, result, drawn >>
               ELSE /\ tried' = Append(tried, "S1")
                    /\ result' = "AggregateMarkers"
                    /\ drawn' = h3_agg'
                    /\ pc' = "main_present"
    /\ UNCHANGED << inputVars, filtered, map_type, h3_resolution,
                    handed, errors, table_rows, resolverVars, history >>

\* ----------------------------------------------------- create_h3_on_the_fly
\* h3_agg['H3_CELL'].dropna().unique()
UniqueCells(agg) ==
    LET cells == [i \in 1..Len(agg) |-> agg[i].H3_CELL]
    IN SelectIdx(cells, {i \in 1..Len(cells) :
                           /\ cells[i] # NULL
                           /\ \A j \in 1..(i - 1) : cells[j] # cells[i]})

\* Lines 126-166: valid_data, the Snowpark aggregation, the resolver call.
\* The column selection of line 128 is inside the try: over a table without
\* CUMULATIVE_DONATION_AMOUNT its KeyError reaches the except of line 255.
OtfAggregate ==
    /\ pc = "otf_aggregate"
    /\ LET valid_data == DropNaAll(filtered)
       IN IF ~hasCumulative
          THEN /\ raised' = Append(raised, "KeyError")
               /\ errors' = Append(errors, "H3 on-the-fly generation failed")
               /\ pc' = "scatter"
               /\ UNCHANGED << h3_agg, tried, h3_cells >>
          ELSE IF valid_data = <<>>
          THEN /\ pc' = "scatter"
               /\ UNCHANGED << h3_agg, tried, raised, errors, h3_cells >>
          ELSE \E snowparkOk \in BOOLEAN :
                IF ~snowparkOk
                THEN /\ raised' = Append(raised, "SnowparkError")
                     /\ errors' = Append(errors,
                                         "H3 on-the-fly generation failed")
                     /\ pc' = "scatter"
                     /\ UNCHANGED << h3_agg, tried, h3_cells >>
                ELSE /\ h3_agg' \in OrderByTotalDesc(
                                       SnowparkGroups(valid_data, h3_resolution))
                     /\ UNCHANGED << raised, errors >>
                     /\ IF h3_agg' = <<>>
                        THEN /\ pc' = "scatter"
                             /\ UNCHANGED << tried, h3_cells >>
                        ELSE /\ tried' = Append(tried, "S0")
                             /\ h3_cells' = [isNone |-> FALSE,
                                             cells |-> UniqueCells(h3_agg')]
                             /\ pc' = "res_entry"
    /\ caller' = "create_h3_on_the_fly"
    /\ h3_list' = <<>>
    /\ cell_i' = 0
    /\ boundaries_data' = <<>>
    /\ function_available' = "unset"
    /\ notice' = "none"
    /\ probes' = 0
    /\ requests' = <<>>
    /\ replies' = <<>>
    /\ env' = <<0, 0>>
    /\ UNCHANGED << inputVars, filtered, map_type, h3_resolution, result,
                    handed, drawn, table_rows, boundaries, history >>

\* boundary['lats'][0] and boundary['lons'][0] (lines 185-186) exist.
RingClosable(boundary) == boundary.lats # <<>> /\ boundary.lons # <<>>

\* A test that wants more than one boundary.
HaveBoundariesSeveral(boundaries_) == Len(boundaries_) > 1

\* "if boundaries:" (line 172)
HaveBoundaries(boundaries_) == boundaries_ # <<>>

\* row['TOTAL_ANNUAL'] / max_donations on numpy floats; the totals are not
\* negative, so a zero maximum divides zero by zero.
Quotient(total, max_donations) ==
    IF max_donations = 0 THEN NaN ELSE <<total, max_donations>>

\* The ratio used as it is, without floor or ceiling.
OpacityUnclamped(total, max_donations) == Quotient(total, max_donations)

\* opacity = min(0.8, max(0.3, row['TOTAL_ANNUAL'] / max_donations))
Opacity(total, max_donations) ==
    PyMin(<<8, 10>>, PyMax(<<3, 10>>, Quotient(total, max_donations)))

\* One trace per cell of the aggregate, resolved or not.
PolygonsAndMarkers(boundaries_, agg) ==
    [k \in 1..Len(agg) |->
        [h3_cell |-> agg[k].H3_CELL,
         TOTAL_ANNUAL |-> agg[k].TOTAL_ANNUAL,
         DONOR_COUNT |-> agg[k].DONOR_COUNT,
         opacity |-> Opacity(agg[k].TOTAL_ANNUAL, MaxTotal(agg))]]

\* Lines 173-198: one polygon trace per boundary whose cell is in h3_agg,
\* drawn with the aggregate row of that cell.
Polygons(boundaries_, agg) ==
    LET known == SelectIdx(boundaries_,
                     {k \in 1..Len(boundaries_) :
                         \E i \in 1..Len(agg) :
                             agg[i].H3_CELL = boundaries_[k].h3_cell})
        rowOf(b) == agg[CHOOSE i \in 1..Len(agg) :
                            /\ agg[i].H3_CELL = b.h3_cell
                            /\ \A j \in 1..(i - 1) :
                                  agg[j].H3_CELL # b.h3_cell]
    IN [k \in 1..Len(known) |->
           [h3_cell |-> known[k].h3_cell,
            TOTAL_ANNUAL |-> rowOf(known[k]).TOTAL_ANNUAL,
            DONOR_COUNT |-> rowOf(known[k]).DONOR_COUNT,
            opacity |-> Opacity(rowOf(known[k]).TOTAL_ANNUAL, MaxTotal(agg))]]

\* Lines 168-257: polygons when there are boundaries, markers otherwise.
OtfBuild ==
    /\ pc = "otf_build"
    /\ IF HaveBoundaries(boundaries)
       THEN IF \A k \in 1..Len(boundaries) : RingClosable(boundaries[k])
            THEN /\ result' = "HexagonPolygons"
                 /\ drawn' = Polygons(boundaries, h3_agg)
                 /\ pc' = "main_present"
                 /\ UNCHANGED << tried, raised, errors >>
            ELSE /\ raised' = Append(raised, "IndexError")
                 /\ errors' = Append(errors,
                                     "H3 on-the-fly generation failed")
                 /\ pc' = "scatter"
                 /\ UNCHANGED << tried, result, drawn >>
       ELSE /\ tried' = Append(tried, "S1")
            /\ result' = "AggregateMarkers"
            /\ drawn' = h3_agg
            /\ pc' = "main_present"
            /\ UNCHANGED << raised, errors >>
    /\ UNCHANGED << inputVars, filtered, map_type, h3_resolution, h3_agg,
                    handed, table_rows, resolverVars, history >>

\* ------------------------------------------------ create_simple_scatter_map
\* Lines 259-296: one marker per row with coordinates, or None.
Scatter ==
    /\ pc = "scatter"
    /\ IF DropNaCoords(filtered) = <<>>
       THEN /\ tried' = tried \o <<"S2", "S3">>
            /\ result' = "None"
            /\ errors' = Append(errors, "No valid coordinates found")
            /\ UNCHANGED drawn
       ELSE /\ tried' = Append(tried, "S2")
            /\ result' = "RawPoints"
            /\ drawn' = DropNaCoords(filtered)
            /\ UNCHANGED errors
    /\ pc' = "main_present"
    /\ UNCHANGED << inputVars, filtered, map_type, h3_resolution, h3_agg,
                    raised, handed, table_rows, resolverVars, history >>

\* --------------------------------------------------------- create_point_map
\* The rows create_point_map_plotly_fallback plots: df as it is.
FallbackPoints(df) == df

\* Lines 592-822: the PyDeck point map over the rows with coordinates, the
\* Plotly one over all rows when PyDeck raises.  Over a table without
\* CUMULATIVE_DONATION_AMOUNT line 629 raises KeyError, and the Plotly
\* figure, whose hover_data names the column (line 771), raises ValueError
\* outside any try.
PointMap ==
    /\ pc = "point_map"
    /\ IF filtered = <<>> \/ DropNaCoords(filtered) = <<>>
       THEN /\ result' = "None"
            /\ pc' = "main_present"
            /\ UNCHANGED << raised, drawn >>
       ELSE IF ~hasCumulative
       THEN /\ raised' = raised \o <<"KeyError", "ValueError">>
            /\ result' = "raised"
            /\ pc' = "main_crashed"
            /\ UNCHANGED drawn
       ELSE \E deckBuilt \in BOOLEAN :
               /\ result' = "RawPoints"
               /\ raised' = IF deckBuilt THEN raised
                            ELSE Append(raised, "PyDeckError")
               /\ drawn' = IF deckBuilt THEN DropNaCoords(filtered)
                           ELSE FallbackPoints(filtered)
               /\ pc' = "main_present"
    /\ UNCHANGED << inputVars, filtered, map_type, h3_resolution, h3_agg,
                    tried, handed, errors, table_rows, resolverVars,
                    history >>

\* What main gives to the presentation layer for a returned result.
Presented(res) == <<res>>

\* Lines 1253-1259, 1286-1296 and 1319-1320: st.pydeck_chart or
\* st.plotly_chart for a result, st.error for None.
MainPresent ==
    /\ pc = "main_present"
    /\ handed' = handed \o Presented(result)
    /\ errors' = IF result = "None"
                 THEN Append(errors, "Unable to create map") ELSE errors
    /\ pc' = "main_tables"
    /\ UNCHANGED << inputVars, filtered, map_type, h3_resolution, h3_agg,
                    tried, raised, result, drawn, table_rows, resolverVars,
                    history >>

\* Lines 1322-1678: the downloads, the record table of tab 1 and the donor
\* table of tab 4, which show the rows of filtered_df.  The report of the
\* third download (line 1391) sums CUMULATIVE_DONATION_AMOUNT before any
\* table is shown: KeyError over a table without the column.
MainTables ==
    /\ pc = "main_tables"
    /\ IF hasCumulative
       THEN /\ table_rows' = filtered
            /\ pc' = "main_done"
            /\ UNCHANGED raised
       ELSE /\ raised' = Append(raised, "KeyError")
            /\ pc' = "main_crashed"
            /\ UNCHANGED table_rows
    /\ UNCHANGED << inputVars, filtered, map_type, h3_resolution, h3_agg,
                    tried, result, handed, errors, drawn,
                    resolverVars, history >>

\* A value that lived through the rerun.
CarriedOver(value, fresh) == value

\* What a local of main holds when the script starts again: main and the
\* builders keep nothing in globals, st.session_state or a cache (only the
\* load functions of lines 76-98 are cached).
StartsFresh(value, fresh) == fresh

\* The script starts from the top with new locals.
StartPass ==
    /\ pc' = "main_load"
    /\ filtered' = StartsFresh(filtered, <<>>)
    /\ map_type' = "H3 Hexagonal Grid"
    /\ h3_resolution' = 8
    /\ h3_agg' = StartsFresh(h3_agg, <<>>)
    /\ tried' = <<>>
    /\ raised' = <<>>
    /\ result' = "pending"
    /\ handed' = <<>>
    /\ errors' = <<>>
    /\ drawn' = <<>>
    /\ table_rows' = <<>>
    /\ caller' = "create_h3_on_the_fly"
    /\ h3_cells' = [isNone |-> FALSE, cells |-> <<>>]
    /\ h3_list' = <<>>
    /\ cell_i' = 0
    /\ boundaries_data' = StartsFresh(boundaries_data, <<>>)
    /\ function_available' = "unset"
    /\ notice' = "none"
    /\ probes' = 0
    /\ requests' = <<>>
    /\ replies' = <<>>
    /\ env' = <<0, 0>>
    /\ boundaries' = StartsFresh(boundaries, <<>>)

\* The next pass: Streamlit reruns the script on the next interaction.
Rerun ==
    /\ pc \in {"main_done", "main_crashed"}
    /\ StartPass
    /\ UNCHANGED << inputVars, history >>

Next ==
    \/ MainLoad
    \/ MainFilter
    \/ MainMetrics
    \/ MainMapControls
    \/ H3Pydeck
    \/ H3PlotlyFallback
    \/ OtfAggregate
    \/ ResEntry
    \/ ResProbe
    \/ ResCell
    \/ ResLoopEnd
    \/ ResReturn
    \/ OtfBuild
    \/ Scatter
    \/ PointMap
    \/ MainPresent
    \/ MainTables
    \/ Rerun

Spec == Init /\ [][Next]_vars

\* ============================================================ properties
Successor(strategy) ==
    CASE strategy = "S0" -> "S1"
      [] strategy = "S1" -> "S2"
      [] strategy = "S2" -> "S3"
      [] OTHER -> "none"

H3MapReturned == pc = "main_present" /\ map_type = "H3 Hexagonal Grid"

RawPointsOrNone ==
    IF \E i \in 1..Len(filtered) : HasCoords(filtered[i])
    THEN "RawPoints" ELSE "None"

\* The strategy the fallback table of the selector asks for.
FirstStrategyThatHolds ==
    IF boundaries # <<>> THEN "HexagonPolygons"
    ELSE IF h3_agg # <<>> THEN "AggregateMarkers"
    ELSE RawPointsOrNone

\* C1 (as stated): in every render pass of the H3 map the strategy produced
\* is the first of S0..S3 whose entry condition holds, S0 being produced iff
\* the boundary resolver returned at least one boundary.
C1_FirstStrategyInEveryPass ==
    H3MapReturned => result = FirstStrategyThatHolds

\* C1 (amended): without a precomputed H3 column and without an exception
\* inside create_h3_on_the_fly the strategy is the first of S0..S3 whose
\* entry condition holds; after an exception there it is RawPoints or None
\* whatever the boundaries and the aggregate are; with a precomputed column
\* a non-empty aggregate gives HexagonPolygons from PyDeck, without any
\* boundary resolver, or AggregateMarkers when PyDeck raised, and an empty
\* aggregate gives RawPoints or None.
C1_StrategyByPath ==
    H3MapReturned =>
        IF ~hasH3Col
        THEN IF raised = <<>>
             THEN result = FirstStrategyThatHolds
             ELSE result = RawPointsOrNone
        ELSE /\ probes = 0
             /\ IF h3_agg # <<>>
                THEN result = IF raised = <<>> THEN "HexagonPolygons"
                              ELSE "AggregateMarkers"
                ELSE result = RawPointsOrNone

\* A pass on the fly that fell back from polygons to markers because the
\* available capability resolved no cell.
C1_Witness ==
    /\ H3MapReturned
    /\ ~hasH3Col
    /\ raised = <<>>
    /\ function_available = "yes"
    /\ requests # <<>>
    /\ result = "AggregateMarkers"

\* C2: within one pass the selector only moves from a strategy to the
\* immediately following one, also when an exception is raised while
\* building S0 or S1 in create_h3_on_the_fly.
C2_OnlyToTheNextStrategy ==
    \A i \in 1..(Len(tried) - 1) : tried[i + 1] = Successor(tried[i])

Outcomes == {"HexagonPolygons", "AggregateMarkers", "RawPoints", "None"}

\* C3: every pass ends with exactly one outcome handed to the presentation
\* layer, one of HexagonPolygons, AggregateMarkers, RawPoints or None.
C3_ExactlyOneOutcomePerPass ==
    /\ Len(handed) <= 1
    /\ \A i \in 1..Len(handed) : handed[i] \in Outcomes
    /\ pc \in {"main_done", "main_crashed"} => Len(handed) = 1

\* C4: a pass whose filters leave zero records of a non-empty roster runs to
\* completion without raising.
C4_EmptyFilterResultCompletes ==
    (Len(donors) > 0 /\ filtered = <<>>) =>
        (pc # "main_crashed" /\ raised = <<>>)

\* C5: after a failed probe the resolver returns an empty result, signals
\* the unavailability, has issued exactly one probe and no per-cell request.
C5_FailedProbeReturnsEmpty ==
    function_available = "no" =>
        /\ pc \in {"res_return", "res_done"}
        /\ boundaries_data = <<>>
        /\ pc = "res_done" => boundaries = <<>>
        /\ notice \in {"warning", "error"}
        /\ probes = 1
        /\ requests = <<>>

C5_Witness ==
    /\ pc = "res_done"
    /\ function_available = "no"
    /\ Len(h3_cells.cells) > CellCap
    /\ boundaries = <<>>

\* C6 (as stated): the resolver never returns the same value when the
\* capability is unavailable and when it is available but resolved no cell.
C6_ReturnValuesDiffer == retUnavailable \cap retAvailableZero = {}

\* C6 (amended): the resolver returns the same empty list when the
\* capability is unavailable and when it is available but resolved no cell;
\* the two differ only in the message the probe shows (a warning or an error
\* against none), which the caller does not receive.
C6_SameEmptyListOnlyNoticeDiffers ==
    /\ retUnavailable \subseteq {<<>>}
    /\ retAvailableZero \subseteq {<<>>}
    /\ pc = "res_done" =>
          /\ function_available = "no" =>
                 (boundaries = <<>> /\ notice \in {"warning", "error"})
          /\ function_available = "yes" => notice = "none"

C6_Witness ==
    /\ retUnavailable = {<<>>}
    /\ retAvailableZero = {<<>>}
    /\ pc = "res_done"
    /\ function_available = "yes"
    /\ requests # <<>>
    /\ boundaries = <<>>

\* Position of the cell x in the list s of distinct cells.
IndexOf(s, x) == CHOOSE i \in 1..Len(s) : s[i] = x

\* C7: the resolver requests boundaries only for the first 10 non-null cell
\* ids among the first 50 input ids, in input order; the boundaries it
\* returns are an order-preserving subsequence of those cells.
C7_OnlyFirstTenOfFirstFifty ==
    LET cells == h3_cells.cells
    IN /\ Len(requests) <= 10
       /\ \A k \in 1..Len(requests) :
             \E p \in 1..Len(cells) :
                /\ p <= 50
                /\ cells[p] # NULL
                /\ cells[p] = requests[k]
                /\ Cardinality({q \in 1..(p - 1) : cells[q] # NULL}) = k - 1
       /\ \A i \in 1..Len(boundaries_data) :
             boundaries_data[i].h3_cell \in Range(requests)
       /\ \A i, j \in 1..Len(boundaries_data) :
             i < j => IndexOf(requests, boundaries_data[i].h3_cell)
                        < IndexOf(requests, boundaries_data[j].h3_cell)

\* A call on more than 50 cells, nulls among them, that requested 10 cells
\* and resolved some but not all of them.
C7_Witness ==
    /\ pc = "res_done"
    /\ Len(h3_cells.cells) > CandidateCap
    /\ NULL \in Range(h3_cells.cells)
    /\ Len(requests) = CellCap
    /\ boundaries # <<>>
    /\ Len(boundaries) < Len(requests)

\* C8: every cell in the resolver's result was parsed into at least 3 valid
\* (lat, lon) vertex pairs.
C8_ResolvedCellsHaveThreePairs ==
    \A i \in 1..Len(boundaries_data) :
        \E k \in 1..Len(requests) :
            /\ requests[k] = boundaries_data[i].h3_cell
            /\ ReplyCatalogue[replies[k]].polygon
            /\ Cardinality(ValidPairs(ReplyCatalogue[replies[k]].tokens)) >= 3

\* The request of a cell and the parse of its text succeed: a row came back,
\* its text has POLYGON and at least 3 tokens gave a latitude.
OwnSuccess(reply) ==
    /\ reply.kind = "row"
    /\ reply.polygon
    /\ Cardinality({t \in 1..Len(reply.tokens) :
                      reply.tokens[t].shape = "pair" /\ reply.tokens[t].latOk})
           >= 3

C10_CountsSumToValidRecords ==
    h3_agg # <<>> =>
        SumField(h3_agg, "DONOR_COUNT") = Len(DropNaCoords(filtered))

\* The rows of df without those the predicate drop(_) names.
Without(df, drop(_)) == SelectIdx(df, {i \in 1..Len(df) : ~drop(df[i])})

NullCoordinate(r) == r.LATITUDE = NULL \/ r.LONGITUDE = NULL

\* A coordinate that is null or outside -90..90 / -180..180.
InvalidCoordinate(r) ==
    \/ NullCoordinate(r)
    \/ r.LATITUDE < -90 \/ r.LATITUDE > 90
    \/ r.LONGITUDE < -180 \/ r.LONGITUDE > 180

\* The cell aggregate of df on the path the pass takes.
AggregateOnPath(df) ==
    IF hasH3Col THEN PandasGroups(df, h3_resolution)
    ELSE SnowparkGroups(DropNaAll(df), h3_resolution)

\* C11 (as stated): a record whose latitude or longitude is null or out of
\* range contributes to no cell aggregate, on the fly and over a precomputed
\* H3 column alike: the aggregate is the one of the records without them;
\* the record still appears in the tables.
C11_InvalidCoordinatesNeverAggregated ==
    /\ h3_agg # <<>> =>
          Range(h3_agg) = AggregateOnPath(Without(filtered, InvalidCoordinate))
    /\ pc = "main_done" => table_rows = filtered

\* C11 (amended): on the fly a record whose latitude or longitude is null
\* contributes to no cell aggregate; no range check is made, and over a
\* precomputed H3 column a record is counted in the cell its H3_LEVEL value
\* names whenever that value and its annual amount are non-null, whatever
\* its coordinates; the tables show every filtered record.
C11_NullCoordinatesNeverAggregatedOnTheFly ==
    /\ (~hasH3Col /\ h3_agg # <<>>) =>
          Range(h3_agg) =
              SnowparkGroups(DropNaAll(Without(filtered, NullCoordinate)),
                             h3_resolution)
    /\ (hasH3Col /\ h3_agg # <<>>) =>
          SumField(h3_agg, "DONOR_COUNT") =
              Cardinality({i \in 1..Len(filtered) :
                              /\ filtered[i].H3_LEVEL # NULL
                              /\ filtered[i].ANNUAL_DONATION_AMOUNT # NULL})
    /\ pc = "main_done" => table_rows = filtered

\* A finished pass on the fly whose filtered records include one without
\* latitude: it is in the tables and not in the aggregate.
C11_Witness ==
    /\ pc = "main_done"
    /\ ~hasH3Col
    /\ h3_agg # <<>>
    /\ \E i \in 1..Len(table_rows) : table_rows[i].LATITUDE = NULL
    /\ SumField(h3_agg, "DONOR_COUNT") < Len(filtered)

\* ------------------------------------------------ apply_filters called alone
\* Four donors of zip 29680 who gave 100, 5000, 12000 and 300.
ScenarioRoster ==
    << Rec("29680", 1990, 100, 1000, "Annual Donor", 0, 0, 1),
       Rec("29680", 2005, 5000, 9000, "Mid-Level Donor", 0, 1, 1),
       Rec("29680", 2005, 12000, 50000, "Major Donor", 1, 0, 1),
       Rec("29680", 1990, 300, 700, "Annual Donor", 1, 1, 1) >>

FilterRosters == Rosters \cup {ScenarioRoster}

\* The values a caller passes for each filter: the empty one, values on the
\* bounds of the data and a zip code no donor has.
ZipChoices == {{}, {"29680"}, {"29650", "29607"}, {"29601"}}

YearChoices == {<<>>, <<1990, 1990>>, <<1990, 2005>>, <<2000, 2010>>}

AmountChoices == {<<>>, <<10000, 999999>>, <<100, 5000>>, <<0, 300>>}

SegmentChoices ==
    {{}, {"Major Donor"}, {"Annual Donor", "Mid-Level Donor"}}

InitFilter ==
    /\ pc = "flt_copy"
    /\ donors \in FilterRosters
    /\ hasH3Col = FALSE
    /\ hasCumulative = TRUE
    /\ SessionIdle
    /\ missing_columns = {}
    /\ zip_codes \in ZipChoices
    /\ grad_years \in YearChoices
    /\ donation_range \in AmountChoices
    /\ donor_segments \in SegmentChoices
    /\ filtered = <<>>
    /\ map_type = "H3 Hexagonal Grid"
    /\ h3_resolution = 8
    /\ h3_agg = <<>>
    /\ tried = <<>>
    /\ raised = <<>>
    /\ result = "pending"
    /\ handed = <<>>
    /\ errors = <<>>
    /\ drawn = <<>>
    /\ table_rows = <<>>
    /\ caller = "direct"
    /\ h3_cells = [isNone |-> FALSE, cells |-> <<>>]
    /\ ResolverLocalsInit
    /\ boundaries = <<>>
    /\ retUnavailable = {}
    /\ retAvailableZero = {}

\* What apply_filters leaves alone.
filterFrame == << inputVars, map_type, h3_resolution, h3_agg, tried, raised,
                  result, handed, errors, drawn, table_rows, resolverVars,
                  history >>

\* filtered_df = df.copy()
FltCopy ==
    /\ pc = "flt_copy"
    /\ filtered' = CopyOf(donors)
    /\ pc' = "flt_zip"
    /\ UNCHANGED filterFrame

\* Lines 104-105.
FltZip ==
    /\ pc = "flt_zip"
    /\ filtered' = FilterZip(filtered, zip_codes)
    /\ pc' = "flt_year"
    /\ UNCHANGED filterFrame

\* Lines 107-111.
FltYear ==
    /\ pc = "flt_year"
    /\ filtered' = FilterYear(filtered, grad_years)
    /\ pc' = "flt_amount"
    /\ UNCHANGED filterFrame

\* Lines 113-117.
FltAmount ==
    /\ pc = "flt_amount"
    /\ filtered' = FilterAmount(filtered, donation_range)
    /\ pc' = "flt_segment"
    /\ UNCHANGED filterFrame

\* Lines 119-122, the return included.
FltSegment ==
    /\ pc = "flt_segment"
    /\ filtered' = FilterSegment(filtered, donor_segments)
    /\ pc' = "flt_done"
    /\ UNCHANGED filterFrame

NextFilter ==
    \/ FltCopy
    \/ FltZip
    \/ FltYear
    \/ FltAmount
    \/ FltSegment

SpecFilter == InitFilter /\ [][NextFilter]_vars

\* A record satisfies every supplied predicate, the range bounds included.
SatisfiesSupplied(r) ==
    /\ zip_codes # {} => r.ZIP_CODE \in zip_codes
    /\ grad_years # <<>> =>
          /\ r.GRADUATION_YEAR # NULL
          /\ grad_years[1] <= r.GRADUATION_YEAR
          /\ r.GRADUATION_YEAR <= grad_years[2]
    /\ donation_range # <<>> =>
          /\ r.ANNUAL_DONATION_AMOUNT # NULL
          /\ donation_range[1] <= r.ANNUAL_DONATION_AMOUNT
          /\ r.ANNUAL_DONATION_AMOUNT <= donation_range[2]
    /\ donor_segments # {} => r.DONOR_SEGMENT \in donor_segments

\* C12: apply_filters keeps a record iff it satisfies every supplied
\* predicate (zip in the set, year and amount within the inclusive ranges,
\* segment in the set); the range [10000, 999999] over the amounts 100,
\* 5000, 12000, 300 keeps the 12000 record only.
C12_KeepsExactlyTheSatisfyingRecords ==
    pc = "flt_done" =>
        /\ filtered = SelectIdx(donors, {i \in 1..Len(donors) :
                                           SatisfiesSupplied(donors[i])})
        /\ (/\ donors = ScenarioRoster
            /\ donation_range = <<10000, 999999>>
            /\ zip_codes = {} /\ grad_years = <<>> /\ donor_segments = {})
              => filtered = <<ScenarioRoster[3]>>

\* The range [10000, 999999] applied to the scenario roster, and a call in
\* which records on both bounds of a range were kept.
C12_Witness ==
    /\ pc = "flt_done"
    /\ donors = ScenarioRoster
    /\ donation_range = <<10000, 999999>>
    /\ zip_codes = {} /\ grad_years = <<>> /\ donor_segments = {}
    /\ Len(filtered) = 1
    /\ filtered[1].ANNUAL_DONATION_AMOUNT = 12000

\* C13: an empty filter value imposes no constraint: the result is the one
\* of the other predicates alone, with all four empty it is the input, and
\* an empty zip selection filters like the selection of every zip code.
C13_EmptyFilterImposesNoConstraint ==
    pc = "flt_done" =>
        /\ zip_codes = {} =>
              filtered = FilterSegment(FilterAmount(
                             FilterYear(donors, grad_years), donation_range),
                             donor_segments)
        /\ grad_years = <<>> =>
              filtered = FilterSegment(FilterAmount(
                             FilterZip(donors, zip_codes), donation_range),
                             donor_segments)
        /\ donation_range = <<>> =>
              filtered = FilterSegment(FilterYear(
                             FilterZip(donors, zip_codes), grad_years),
                             donor_segments)
        /\ donor_segments = {} =>
              filtered = FilterAmount(FilterYear(
                             FilterZip(donors, zip_codes), grad_years),
                             donation_range)
        /\ (zip_codes = {} /\ grad_years = <<>> /\ donation_range = <<>>
                /\ donor_segments = {}) => filtered = donors
        /\ zip_codes = {} =>
              filtered = apply_filters(donors, ZipOptions(donors), grad_years,
                                       donation_range, donor_segments)

\* A call with an empty zip selection on donors of two zip codes, in which
\* the segment predicate removed one donor and kept the other.
C13_Witness ==
    /\ pc = "flt_done"
    /\ zip_codes = {}
    /\ donor_segments # {}
    /\ Len(donors) = 2
    /\ donors[1].ZIP_CODE # donors[2].ZIP_CODE
    /\ Len(filtered) = 1

PredicateNames == {"zip", "year", "amount", "segment"}

\* The orders in which the four predicates can be applied.
PredicateOrders ==
    {o \in [1..4 -> PredicateNames] : \A i, j \in 1..4 : i # j => o[i] # o[j]}

ApplyPredicate(df, name) ==
    CASE name = "zip" -> FilterZip(df, zip_codes)
      [] name = "year" -> FilterYear(df, grad_years)
      [] name = "amount" -> FilterAmount(df, donation_range)
      [] OTHER -> FilterSegment(df, donor_segments)

RECURSIVE ApplyInOrder(_, _)
ApplyInOrder(df, order) ==
    IF order = <<>> THEN df
    ELSE ApplyInOrder(ApplyPredicate(df, Head(order)), Tail(order))

\* C14: the result of apply_filters does not depend on the order in which
\* the predicates are applied: every permutation of the four gives the
\* records the function returns.
C14_OrderOfPredicatesIrrelevant ==
    pc = "flt_done" =>
        \A order \in PredicateOrders : ApplyInOrder(donors, order) = filtered

\* A call with all four predicates supplied that kept some donors and
\* removed others.
C14_Witness ==
    /\ pc = "flt_done"
    /\ zip_codes # {} /\ grad_years # <<>> /\ donation_range # <<>>
    /\ donor_segments # {}
    /\ filtered # <<>>
    /\ Len(filtered) < Len(donors)

\* The figure of the pass draws the polygons of create_h3_on_the_fly.
PolygonsDrawn == ~hasH3Col /\ result = "HexagonPolygons"

\* a <= b and a = b on fractions with positive denominators.
AtMost(a, b) == a[1] * b[2] <= b[1] * a[2]

SameValue(a, b) == a[1] * b[2] = b[1] * a[2]

\* min(0.8, max(0.3, total / max)) for a positive max, case by case.
Clamped(total, max) ==
    IF 10 * total < 3 * max THEN <<3, 10>>
    ELSE IF 10 * total > 8 * max THEN <<8, 10>>
    ELSE <<total, max>>

\* What C15 says of every polygon but its value at the largest total.
OpacityWithinBounds ==
    \A k \in 1..Len(drawn) :
        /\ drawn[k].opacity # NaN
        /\ AtMost(<<3, 10>>, drawn[k].opacity)
        /\ AtMost(drawn[k].opacity, <<8, 10>>)
        /\ drawn[k].TOTAL_ANNUAL = 0 => SameValue(drawn[k].opacity, <<3, 10>>)
        /\ \A j \in 1..Len(drawn) :
              drawn[j].TOTAL_ANNUAL <= drawn[k].TOTAL_ANNUAL
                  => AtMost(drawn[j].opacity, drawn[k].opacity)

\* C15 (as stated): the opacity of every polygon drawn is
\* min(0.8, max(0.3, total / max total)): within [0.3, 0.8], 0.3 for a cell
\* of total 0, 0.8 for the cell of the largest total, non-decreasing in the
\* total.
C15_OpacityCeilingAtLargestTotal ==
    PolygonsDrawn =>
        /\ OpacityWithinBounds
        /\ \A k \in 1..Len(drawn) :
              drawn[k].TOTAL_ANNUAL = MaxTotal(h3_agg)
                  => SameValue(drawn[k].opacity, <<8, 10>>)

\* C15 (amended): when the largest cell total is positive the opacity of
\* every polygon drawn is min(0.8, max(0.3, total / max total)): within
\* [0.3, 0.8], 0.3 for total 0, 0.8 for the cell of the largest total,
\* non-decreasing in the total; when the largest total is 0 the quotient is
\* 0 / 0 and every polygon, the one of the largest total included, has
\* opacity 0.3.
C15_OpacityClampedForPositiveMax ==
    PolygonsDrawn =>
        /\ OpacityWithinBounds
        /\ IF MaxTotal(h3_agg) > 0
           THEN \A k \in 1..Len(drawn) :
                  /\ SameValue(drawn[k].opacity,
                               Clamped(drawn[k].TOTAL_ANNUAL, MaxTotal(h3_agg)))
                  /\ drawn[k].TOTAL_ANNUAL = MaxTotal(h3_agg)
                        => SameValue(drawn[k].opacity, <<8, 10>>)
           ELSE \A k \in 1..Len(drawn) :
                  SameValue(drawn[k].opacity, <<3, 10>>)

\* Two polygons drawn: the one of the largest total at 0.8 and one whose
\* opacity lies strictly between the floor and the ceiling.
C15_Witness ==
    /\ PolygonsDrawn
    /\ \E j, k \in 1..Len(drawn) :
          /\ drawn[k].TOTAL_ANNUAL = MaxTotal(h3_agg)
          /\ SameValue(drawn[k].opacity, <<8, 10>>)
          /\ ~AtMost(drawn[j].opacity, <<3, 10>>)
          /\ ~AtMost(<<8, 10>>, drawn[j].opacity)

\* The cells of the records of df that have both coordinates.
CellsOfValidRecords(df) ==
    {CellOf(df[i].LATITUDE, df[i].LONGITUDE, h3_resolution) :
        i \in {j \in 1..Len(df) :
                 df[j].LATITUDE # NULL /\ df[j].LONGITUDE # NULL}}

\* C16: when the probe found the boundary capability unavailable and some
\* record has valid coordinates, the pass produces AggregateMarkers with one
\* marker per distinct cell, the marker counts summing to the number of
\* records with valid coordinates.
C16_UnavailableCapabilityGivesMarkers ==
    (/\ H3MapReturned
     /\ function_available = "no"
     /\ \E i \in 1..Len(filtered) :
           filtered[i].LATITUDE # NULL /\ filtered[i].LONGITUDE # NULL) =>
        /\ result = "AggregateMarkers"
        /\ Len(drawn) = Cardinality(CellsOfValidRecords(filtered))
        /\ \A j, k \in 1..Len(drawn) :
              j # k => drawn[j].H3_CELL # drawn[k].H3_CELL
        /\ SumField(drawn, "DONOR_COUNT") =
              Cardinality({i \in 1..Len(filtered) :
                              /\ filtered[i].LATITUDE # NULL
                              /\ filtered[i].LONGITUDE # NULL})

\* No record of df has both coordinates (an empty df included).
NoValidCoordinates(df) ==
    \A i \in 1..Len(df) : df[i].LATITUDE = NULL \/ df[i].LONGITUDE = NULL

PassOver == pc \in {"main_stopped", "main_done", "main_crashed"}

\* The tables were read and have the required columns.
RosterLoaded ==
    /\ pc # "main_load"
    /\ missing_columns = {}
    /\ \A k \in 1..Len(errors) : errors[k] # "Error loading data"

\* C17 (as stated): with an empty roster, or a roster in which no record
\* has valid coordinates, the filter returns empty, the aggregate is empty
\* and the pass ends with None handed to the user, without an exception and
\* without a probe or a per-cell request.
C17_NoValidRecordEndsInNoData ==
    (PassOver /\ RosterLoaded /\ NoValidCoordinates(donors)) =>
        /\ filtered = <<>>
        /\ h3_agg = <<>>
        /\ result = "None"
        /\ handed = <<"None">>
        /\ raised = <<>>
        /\ probes = 0
        /\ requests = <<>>

\* C17 (amended): with an empty roster main shows "No donor data found" and
\* stops before the filter and the map builders run.  When the filtered
\* records are not empty and none has both coordinates (and, on a table
\* with the H3 column, none has an H3 value), the filter has returned those
\* records, the aggregate is empty and the map builder returns None, which
\* main reports with st.error, without an exception and without a probe or
\* a per-cell request.
C17_NoDataStopsOrReturnsNone ==
    /\ (RosterLoaded /\ Len(donors) = 0) =>
          /\ pc = "main_stopped"
          /\ errors = <<"No donor data found">>
          /\ filtered = <<>> /\ h3_agg = <<>>
          /\ result = "pending" /\ handed = <<>>
          /\ raised = <<>> /\ probes = 0 /\ requests = <<>>
    /\ (/\ pc \in {"main_present", "main_tables", "main_done"}
        /\ NoValidCoordinates(filtered)
        /\ (map_type = "H3 Hexagonal Grid" /\ hasH3Col) =>
              \A i \in 1..Len(filtered) : filtered[i].H3_LEVEL = NULL) =>
          /\ filtered # <<>>
          /\ h3_agg = <<>>
          /\ result = "None"
          /\ raised = <<>> /\ probes = 0 /\ requests = <<>>
          /\ pc # "main_present" =>
                /\ handed = <<"None">>
                /\ errors[Len(errors)] = "Unable to create map"

\* A finished pass of the H3 map on the fly over records none of which has
\* both coordinates: None was handed to the user.
C17_Witness ==
    /\ pc = "main_done"
    /\ map_type = "H3 Hexagonal Grid"
    /\ ~hasH3Col
    /\ filtered # <<>>
    /\ NoValidCoordinates(filtered)
    /\ result = "None"
    /\ handed = <<"None">>
    /\ probes = 0

\* The figure was built by create_point_map_plotly_fallback.
FromPlotlyPointFallback ==
    /\ map_type = "Individual Points"
    /\ \E k \in 1..Len(raised) : raised[k] = "PyDeckError"

\* C18: when create_simple_scatter_map or create_point_map_pydeck produces
\* RawPoints, the markers are exactly the records with both LATITUDE and
\* LONGITUDE non-null, one per record and in their order; a record with a
\* null coordinate yields no marker, and when no record qualifies the
\* function returns None.
C18_RawPointsAreTheRecordsWithCoordinates ==
    /\ (result = "RawPoints" /\ ~FromPlotlyPointFallback) =>
          /\ drawn = SelectIdx(filtered,
                               {i \in 1..Len(filtered) :
                                   /\ filtered[i].LATITUDE # NULL
                                   /\ filtered[i].LONGITUDE # NULL})
          /\ \A k \in 1..Len(drawn) :
                drawn[k].LATITUDE # NULL /\ drawn[k].LONGITUDE # NULL
    /\ result \in {"RawPoints", "None"} =>
          (result = "None" <=> NoValidCoordinates(filtered))
    /\ result = "None" => drawn = <<>>

\* A PyDeck point map over two filtered records of which one has no
\* latitude: one marker.
C18_Witness ==
    /\ pc = "main_present"
    /\ map_type = "Individual Points"
    /\ raised = <<>>
    /\ result = "RawPoints"
    /\ Len(filtered) = 2
    /\ Len(drawn) = 1
    /\ \E i \in 1..2 : filtered[i].LATITUDE = NULL

\* C19: the resolution handed to create_h3_hexagon_map and to
\* create_static_map_image is one of the integers 7, 8, 9, and it is 8
\* whenever the map type is not the H3 grid.
C19_ResolutionIsSevenEightOrNine ==
    /\ h3_resolution \in {7, 8, 9}
    /\ map_type # "H3 Hexagonal Grid" => h3_resolution = 8

\* A finished pass whose H3 map was built at resolution 9.
C19_Witness ==
    /\ pc = "main_done"
    /\ map_type = "H3 Hexagonal Grid"
    /\ h3_resolution = 9
    /\ result \in {"HexagonPolygons", "AggregateMarkers"}

\* C20: when the loaded donor table lacks a required column the pass shows
\* one error and stops: no filter, aggregation, boundary or render step
\* runs.
C20_MissingColumnStopsThePass ==
    (missing_columns # {} /\ pc # "main_load") =>
        /\ pc = "main_stopped"
        /\ errors \in {<<"Missing required columns">>,
                       <<"Error loading data">>}
        /\ filtered = <<>>
        /\ h3_agg = <<>>
        /\ tried = <<>>
        /\ probes = 0 /\ requests = <<>>
        /\ result = "pending" /\ handed = <<>>
        /\ drawn = <<>> /\ table_rows = <<>>

\* A roster of two donors whose table lacks DONOR_SEGMENT: the pass stopped
\* with the one error about the missing column.
C20_Witness ==
    /\ pc = "main_stopped"
    /\ missing_columns = {"DONOR_SEGMENT"}
    /\ Len(donors) = 2
    /\ errors = <<"Missing required columns">>

\* ------------------------------------------ tables with and without the
\* cumulative amount
\* The passes over a donor table that has or lacks the column
\* CUMULATIVE_DONATION_AMOUNT, which the aggregations, the point map and the
\* tables read and the check of line 1026 does not name.
InitColumns ==
    /\ donors \in Rosters
    /\ hasH3Col \in BOOLEAN
    /\ hasCumulative \in BOOLEAN
    /\ missing_columns \in MissingChoices
    /\ FirstPass

SpecColumns == InitColumns /\ [][Next]_vars

PassRosters ==
    { << Rec("29680", 1990, 100, 1000, "Annual Donor", 0, 0, 1),
         Rec("29680", 2005, 12000, 50000, "Major Donor", 1, 0, 1) >>,
      << Rec("29650", 2005, 5000, 9000, "Mid-Level Donor", 2, 2, 2),
         Rec("29650", 1990, 300, 700, "Annual Donor", NULL, 0, NULL) >> }

InitPasses ==
    /\ donors \in PassRosters
    /\ hasH3Col \in BOOLEAN
    /\ hasCumulative = TRUE
    /\ missing_columns = {}
    /\ FirstPass

\* The failures of the external calls of the pass, in order.
ExternalFailures ==
    SelectSeq(raised, LAMBDA e : e \in {"SnowparkError", "PyDeckError"})

\* What the map of the pass was built from: the filtered records, the map
\* controls, and the responses of Snowpark, PyDeck and the boundary
\* capability (the aggregate's order, the failures, the probe, the replies).
PassInputs ==
    << filtered, map_type, h3_resolution, hasH3Col,
       [i \in 1..Len(h3_agg) |-> h3_agg[i].H3_CELL], ExternalFailures,
       function_available, notice, env >>

\* What the pass chose: the strategies, the cells requested and resolved,
\* the result and what it draws.
PassOutcome == << tried, requests, boundaries, result, drawn >>

\* The next pass, with this one kept for the comparison.
RerunRemembering ==
    /\ pc \in {"main_done", "main_crashed"}
    /\ StartPass
    /\ earlier' = [seen |-> TRUE, inputs |-> PassInputs,
                   outcome |-> PassOutcome]
    /\ UNCHANGED << donors, hasH3Col, hasCumulative, missing_columns,
                    filterArgs, session_zip_codes, session_donor_segments,
                    sidebar, history >>

NextPasses ==
    \/ MainLoad
    \/ MainFilter
    \/ MainMetrics
    \/ MainMapControls
    \/ H3Pydeck
    \/ H3PlotlyFallback
    \/ OtfAggregate
    \/ ResEntry
    \/ ResProbe
    \/ ResCell
    \/ ResLoopEnd
    \/ ResReturn
    \/ OtfBuild
    \/ Scatter
    \/ PointMap
    \/ MainPresent
    \/ MainTables
    \/ Rerun
    \/ RerunRemembering

SpecPasses == InitPasses /\ [][NextPasses]_vars

\* The locals of main and of the builders at the start of a pass.
NothingCarried ==
    /\ filtered = <<>> /\ h3_agg = <<>> /\ tried = <<>> /\ raised = <<>>
    /\ result = "pending" /\ drawn = <<>> /\ boundaries = <<>>
    /\ boundaries_data = <<>> /\ h3_list = <<>> /\ requests = <<>>
    /\ function_available = "unset"

\* C22: the strategy of a pass is a function of that pass's inputs only: a
\* pass whose filtered records, resolution and capability responses equal
\* those of an earlier pass chooses the same strategies and the same cells,
\* whatever the passes between ended in, and a pass starts with no boundary
\* or aggregate of an earlier one.
C22_EqualInputsGiveEqualStrategy ==
    /\ pc = "main_load" => NothingCarried
    /\ (pc \in {"main_done", "main_crashed"} /\ earlier.seen
          /\ earlier.inputs = PassInputs)
         => earlier.outcome = PassOutcome

\* A later pass over the inputs of a remembered pass has drawn polygons.
C22_Witness ==
    /\ pc = "main_done" /\ earlier.seen /\ earlier.inputs = PassInputs
    /\ result = "HexagonPolygons" /\ ~hasH3Col /\ Len(drawn) > 0

\* ------------------------------------------- the sidebar and session state
\* ['29680', '29650', '29607', '29681'] (line 1060)
DefaultZips == {"29680", "29650", "29607", "29681"}

\* The rosters of the sessions followed with their st.session_state: two
\* donors of two zip codes and two segments, one of them without H3 value,
\* and four donors of the four zip codes of line 1060.
SessionRosters ==
    { << Rec("29680", 1990, 100, 1000, "Annual Donor", 0, 0, 1),
         Rec("29650", 2005, 5000, 9000, "Mid-Level Donor", NULL, 0, NULL) >>,
      << Rec("29680", 1990, 100, 1000, "Annual Donor", 0, 0, 1),
         Rec("29650", 1990, 100, 1000, "Annual Donor", 2, 2, 2),
         Rec("29607", 1990, 100, 1000, "Annual Donor", 0, 0, 1),
         Rec("29681", 1990, 100, 1000, "Annual Donor", 2, 2, 2) >> }

InitSession ==
    /\ donors \in SessionRosters
    /\ hasH3Col = TRUE
    /\ hasCumulative = TRUE
    /\ missing_columns = {}
    /\ FirstPass

\* What st.button returns for the pair "Select All" / "Clear All": a button
\* is pressed on a page that an earlier pass rendered, and every pass that
\* renders the pair leaves the key in st.session_state.
PressChoices(entry) ==
    IF entry.present THEN {"none", "select_all", "clear_all"} ELSE {"none"}

\* Lines 1052-1056 and 1098-1102: the assignments made by the buttons.
AfterButtons(entry, button, options) ==
    CASE button = "select_all" -> [present |-> TRUE, value |-> options]
      [] button = "clear_all" -> [present |-> TRUE, value |-> {}]
      [] OTHER -> entry

\* Lines 1059-1060 and 1105-1106: the default stored when the key is absent.
WithDefault(entry, dflt) ==
    IF entry.present THEN entry ELSE [present |-> TRUE, value |-> dflt]

\* Whether every default value is among the options of the multiselect;
\* with another default the widget raises or returns a selection.
MultiselectAccepts(dflt, options) == dflt \subseteq options

\* The entry left as the buttons and the default made it.
KeepsDefault(selection, dflt) == dflt

\* st.session_state.zip_codes = zip_codes (lines 1069 and 1115)
StoredSelection(selection, dflt) == selection

\* Lines 1044-1120 with the entries of st.session_state: the buttons, the
\* stored defaults, the multiselects, the sliders, the call of
\* apply_filters.
MainFilterSession ==
    /\ pc = "main_filter"
    /\ \E zb \in PressChoices(session_zip_codes),
          sb \in PressChoices(session_donor_segments) :
        LET zopts == ZipOptions(donors)
            sopts == SegmentOptions(donors)
            zpressed == AfterButtons(session_zip_codes, zb, zopts)
            spressed == AfterButtons(session_donor_segments, sb, sopts)
            zentry == WithDefault(zpressed, DefaultZips)
            sentry == WithDefault(spressed, sopts)
            log == [called |-> FALSE, zips |-> {}, segments |-> {},
                    zip_button |-> zb, segment_button |-> "none",
                    zip_default |-> zentry.value, segment_default |-> {},
                    zip_hardcoded |-> ~zpressed.present,
                    segment_all |-> FALSE]
        IN \/ /\ ~MultiselectAccepts(zentry.value, zopts)
              /\ sb = "none"
              /\ session_zip_codes' = zentry
              /\ raised' = Append(raised, "StreamlitAPIException")
              /\ sidebar' = log
              /\ pc' = "main_crashed"
              /\ UNCHANGED << session_donor_segments, filtered >>
           \/ /\ ~YearBoundsComputable(donors)
              /\ sb = "none"
              /\ \E zips \in SUBSET zopts :
                    session_zip_codes' =
                        [present |-> TRUE,
                         value |-> StoredSelection(zips, zentry.value)]
              /\ raised' = Append(raised, "ValueError")
              /\ sidebar' = log
              /\ pc' = "main_crashed"
              /\ UNCHANGED << session_donor_segments, filtered >>
           \/ /\ YearBoundsComputable(donors)
              /\ \E zips \in SUBSET zopts,
                    years \in SliderRanges(donors, "GRADUATION_YEAR"),
                    amounts \in DonationRanges(donors),
                    segments \in SUBSET sopts :
                    /\ session_zip_codes' =
                           [present |-> TRUE,
                            value |-> StoredSelection(zips, zentry.value)]
                    /\ session_donor_segments' =
                           [present |-> TRUE,
                            value |-> StoredSelection(segments, sentry.value)]
                    /\ filtered' = apply_filters(donors, zips, years, amounts,
                                                 segments)
                    /\ sidebar' = [log EXCEPT
                                     !.called = TRUE,
                                     !.zips = zips,
                                     !.segments = segments,
                                     !.segment_button = sb,
                                     !.segment_default = sentry.value,
                                     !.segment_all = ~spressed.present]
              /\ pc' = "main_metrics"
              /\ UNCHANGED raised
    /\ UNCHANGED << donors, hasH3Col, hasCumulative, missing_columns,
                    filterArgs, earlier, map_type, h3_resolution, h3_agg,
                    tried, result, handed, errors, drawn, table_rows,
                    resolverVars, history >>

NextSession ==
    \/ MainLoad
    \/ MainFilterSession
    \/ MainMetrics
    \/ MainMapControls
    \/ H3Pydeck
    \/ H3PlotlyFallback
    \/ Scatter
    \/ PointMap
    \/ MainPresent
    \/ MainTables
    \/ Rerun

SpecSession == InitSession /\ [][NextSession]_vars

\* C23: the entry st.session_state.zip_codes a pass leaves to the next one
\* is the zip selection apply_filters received in the latest pass that
\* called it, and donor_segments likewise; what "Select All" or "Clear All"
\* assigns is only the default of the multiselect of that pass; the zip list
\* of line 1060 is stored only in a pass that began without the key.
C23_SessionHoldsTheLatestSelection ==
    /\ sidebar.called =>
          /\ session_zip_codes = [present |-> TRUE, value |-> sidebar.zips]
          /\ session_donor_segments =
                 [present |-> TRUE, value |-> sidebar.segments]
    /\ sidebar.zip_button = "select_all" =>
          sidebar.zip_default = ZipOptions(donors)
    /\ sidebar.zip_button = "clear_all" => sidebar.zip_default = {}
    /\ (sidebar.called /\ sidebar.segment_button = "select_all") =>
          sidebar.segment_default = SegmentOptions(donors)
    /\ (sidebar.called /\ sidebar.segment_button = "clear_all") =>
          sidebar.segment_default = {}
    /\ sidebar.zip_hardcoded =>
          sidebar.zip_button = "none" /\ sidebar.zip_default = DefaultZips
    /\ sidebar.called => session_zip_codes.value \subseteq ZipOptions(donors)

\* A pass in which "Select All Zips" was pressed has handed apply_filters a
\* narrower selection, and the next pass begins with that selection stored.
C23_Witness ==
    /\ pc = "main_load" /\ sidebar.called
    /\ sidebar.zip_button = "select_all"
    /\ sidebar.zips # {} /\ sidebar.zips # ZipOptions(donors)
    /\ session_zip_codes.value = sidebar.zips

\* ---------------------------------- create_h3_on_the_fly called directly
\* The annual amount of the k-th donor of a record set: all different, or
\* equal in pairs.
AmountOf(k, pattern) ==
    IF pattern = "distinct" THEN 100 * k ELSE 100 * ((k + 1) \div 2)

\* n donors in n cells of resolution 9.
SpreadRoster(n, pattern) ==
    [k \in 1..n |->
        Rec("29680", 1990, AmountOf(k, pattern), 1000, "Annual Donor",
            k, 0, NULL)]

ManyCellRosters ==
    {SpreadRoster(n, pattern) :
        n \in {3, ManyCells, ManyCells + 1}, pattern \in {"distinct", "paired"}}

\* create_h3_on_the_fly(df, resolution) entered with df one of the record
\* sets above, as create_h3_hexagon_map_pydeck calls it (line 412).
InitOnTheFly ==
    /\ pc = "otf_aggregate"
    /\ donors \in ManyCellRosters
    /\ hasH3Col = FALSE
    /\ hasCumulative = TRUE
    /\ missing_columns = {}
    /\ FilterArgsIdle
    /\ SessionIdle
    /\ filtered = donors
    /\ map_type = "H3 Hexagonal Grid"
    /\ h3_resolution \in Resolutions
    /\ h3_agg = <<>>
    /\ tried = <<>>
    /\ raised = <<>>
    /\ result = "pending"
    /\ handed = <<>>
    /\ errors = <<>>
    /\ drawn = <<>>
    /\ table_rows = <<>>
    /\ caller = "create_h3_on_the_fly"
    /\ h3_cells = [isNone |-> FALSE, cells |-> <<>>]
    /\ ResolverLocalsInit
    /\ boundaries = <<>>
    /\ retUnavailable = {}
    /\ retAvailableZero = {}

NextOnTheFly ==
    \/ OtfAggregate
    \/ ResEntry
    \/ ResProbe
    \/ ResCell
    \/ ResLoopEnd
    \/ ResReturn
    \/ OtfBuild
    \/ Scatter

SpecOnTheFly == InitOnTheFly /\ [][NextOnTheFly]_vars

\* The cells of the traces of the returned figure.
DrawnCells == {drawn[k].h3_cell : k \in 1..Len(drawn)}

\* The cells of the boundaries the resolver returned.
ResolvedCells == {boundaries[k].h3_cell : k \in 1..Len(boundaries)}

\* C24: when create_h3_on_the_fly returns polygons, at most 10 are drawn;
\* their cells are among the first 10 of the aggregate, which is ordered by
\* falling total annual amount; a cell of the aggregate without a resolved
\* boundary, and so every cell after the 10th, has no trace at all, polygon
\* or marker.
C24_OnlyResolvedCellsOfTheTopTenAreDrawn ==
    (pc = "main_present" /\ ~hasH3Col /\ result = "HexagonPolygons") =>
        /\ Len(drawn) <= CellCap
        /\ \A i \in 1..(Len(h3_agg) - 1) :
              h3_agg[i].TOTAL_ANNUAL >= h3_agg[i + 1].TOTAL_ANNUAL
        /\ \A k \in 1..Len(drawn) :
              /\ "opacity" \in DOMAIN drawn[k]
              /\ \E i \in 1..Min2(CellCap, Len(h3_agg)) :
                    h3_agg[i].H3_CELL = drawn[k].h3_cell
              /\ \A j \in 1..Len(drawn) :
                    drawn[j].h3_cell = drawn[k].h3_cell => j = k
        /\ \A i \in 1..Len(h3_agg) :
              /\ h3_agg[i].H3_CELL \notin ResolvedCells =>
                    h3_agg[i].H3_CELL \notin DrawnCells
              /\ i > CellCap => h3_agg[i].H3_CELL \notin DrawnCells

\* Polygons returned over an aggregate of more than 10 cells: the first 10
\* all resolved and drawn, the others left out.
C24_Witness ==
    /\ pc = "main_present" /\ ~hasH3Col /\ result = "HexagonPolygons"
    /\ Len(h3_agg) > CellCap
    /\ Len(drawn) = CellCap
    /\ \E i \in 1..Len(h3_agg) : h3_agg[i].H3_CELL \notin DrawnCells

\* C25: in every boundary the resolver returns, lats and lons have the same
\* length, the i-th latitude and the i-th longitude coming from the same
\* token of the text, also when some tokens do not parse.
C25_LatsAndLonsPairUp ==
    \A k \in 1..Len(boundaries_data) :
        Len(boundaries_data[k].lats) = Len(boundaries_data[k].lons)

\* No entry among the first 50 of the list is an id.
NoCandidate(arg) ==
    \/ arg.isNone
    \/ \A i \in 1..Min2(CandidateCap, Len(arg.cells)) : arg.cells[i] = NULL

\* C26: one call of the resolver issues at most 11 remote queries, one probe
\* and at most 10 requests for a cell, no cell requested twice and none
\* before the probe; it issues none, not even the probe, when the list is
\* None, empty, or without an id among its first 50 entries.
C26_AtMostElevenQueries ==
    /\ probes <= 1
    /\ Len(requests) <= CellCap
    /\ probes + Len(requests) <= CellCap + 1
    /\ requests # <<>> => probes = 1
    /\ \A i, j \in 1..Len(requests) : requests[i] = requests[j] => i = j
    /\ NoCandidate(h3_cells) => probes = 0 /\ requests = <<>>

\* A call over more than 50 ids has ended with the probe and 10 requests.
C26_Witness ==
    /\ pc = "res_done"
    /\ Len(h3_cells.cells) > CandidateCap
    /\ probes = 1
    /\ Len(requests) = CellCap

\* No record of the rows has a null graduation year or annual amount.
Complete(rows) ==
    \A i \in 1..Len(rows) :
        /\ rows[i].GRADUATION_YEAR # NULL
        /\ rows[i].ANNUAL_DONATION_AMOUNT # NULL

\* C27: apply_filters excludes a record whose GRADUATION_YEAR is null
\* whenever a year range is supplied, and one whose ANNUAL_DONATION_AMOUNT
\* is null whenever an amount range is supplied, even a range from the
\* roster's minimum to its maximum; main always supplies both ranges, so no
\* such record is in filtered_df, on the map or in the tables.
C27_NullYearOrAmountNeverPassesTheFilter ==
    /\ pc = "main_filter" =>
          /\ \A years \in SliderRanges(donors, "GRADUATION_YEAR")
                            \cup (YearChoices \ {<<>>}) :
                \A r \in Range(apply_filters(donors, {}, years, <<>>, {})) :
                    r.GRADUATION_YEAR # NULL
          /\ \A amounts \in DonationRanges(donors)
                              \cup (AmountChoices \ {<<>>}) :
                \A r \in Range(apply_filters(donors, {}, <<>>, amounts, {})) :
                    r.ANNUAL_DONATION_AMOUNT # NULL
    /\ Complete(filtered)
    /\ Complete(table_rows)
    /\ result = "RawPoints" => Complete(drawn)

\* A pass over a roster with a donor without graduation year has drawn its
\* map and shown its tables.
C27_Witness ==
    /\ pc = "main_done"
    /\ \E i \in 1..Len(donors) : donors[i].GRADUATION_YEAR = NULL
    /\ table_rows # <<>>
    /\ drawn # <<>>

\* C28: apply_filters is idempotent: applied with the same four arguments
\* to its own result it returns that result.
C28_FilteringTwiceIsFilteringOnce ==
    pc = "flt_done" =>
        apply_filters(filtered, zip_codes, grad_years, donation_range,
                      donor_segments) = filtered

\* A call with all four predicates supplied has kept some rows of a roster
\* and dropped others.
C28_Witness ==
    /\ pc = "flt_done"
    /\ zip_codes # {} /\ grad_years # <<>> /\ donation_range # <<>>
    /\ donor_segments # {}
    /\ Len(filtered) >= 2
    /\ Len(filtered) < Len(donors)

RECURSIVE IsSubsequence(_, _)
\* sub is seq with some positions left out.
IsSubsequence(sub, seq) ==
    IF sub = <<>> THEN TRUE
    ELSE IF seq = <<>> THEN FALSE
    ELSE IF Head(sub) = Head(seq)
         THEN IsSubsequence(Tail(sub), Tail(seq))
         ELSE IsSubsequence(sub, Tail(seq))

\* C29: apply_filters leaves the record set it is given unchanged, and what
\* it holds and returns is a sub-collection of that set in the same relative
\* order: no record added, duplicated, reordered or altered.
C29_InputUnchangedResultInOrder ==
    /\ [](pc # "flt_copy" => IsSubsequence(filtered, donors))
    /\ [][donors' = donors]_vars

\* A call has returned some of the records of a roster of several, not all.
C29_Witness ==
    /\ pc = "flt_done"
    /\ Len(donors) >= 2
    /\ Len(filtered) >= 1
    /\ Len(filtered) < Len(donors)
    /\ filtered[1] # donors[1]

\* The hexagons of the PyDeck layer over a precomputed H3 column are drawn.
PydeckHexagons == hasH3Col /\ result = "HexagonPolygons"

\* Donation amounts and maxima the colour function is tried on besides the
\* totals of the aggregates: negative, zero and positive ones.
ColourGrid == {-100, 0, 1, 50, 100, 300, 5000, 12000}

\* red in 204..255, green in 0..153, blue in 0..51
InColourRange(c) ==
    /\ c[1] \in 204..255
    /\ c[2] \in 0..153
    /\ c[3] \in 0..51

\* The colours are in range and normalized is clamped to [0, 1] and 0 for a
\* maximum that is not positive, over the grid and over what is drawn.
ColoursWithinBounds ==
    /\ pc = "h3_pydeck" =>
          \A d \in ColourGrid, m \in ColourGrid :
              /\ \A c \in get_color_for_donations(d, m) : InColourRange(c)
              /\ AtMost(<<0, 1>>, Normalized(d, m))
              /\ AtMost(Normalized(d, m), <<1, 1>>)
              /\ m <= 0 => SameValue(Normalized(d, m), <<0, 1>>)
              /\ (m > 0 /\ d >= m) =>
                    get_color_for_donations(d, m) = {<<255, 0, 0>>}
    /\ PydeckHexagons =>
          \A k \in 1..Len(drawn) : InColourRange(drawn[k].color)

\* C30 (as stated): get_color_for_donations returns red in 204..255, green
\* in 0..153 and blue in 0..51, normalized is clamped to [0, 1] and is 0
\* whenever the maximum is not positive, and a cell with the maximum total
\* gets [255, 0, 0].
C30_MaximumCellIsPureRed ==
    /\ ColoursWithinBounds
    /\ PydeckHexagons =>
          \A k \in 1..Len(drawn) :
              drawn[k].TOTAL_ANNUAL = MaxTotal(h3_agg)
                  => drawn[k].color = <<255, 0, 0>>

\* C30 (amended): the same bounds; a cell with the maximum total gets
\* [255, 0, 0] when that maximum is positive, and when it is not positive
\* every cell, the one with the maximum total included, gets
\* [204, 153, 51].
C30_MaximumCellIsPureRedForPositiveMax ==
    /\ ColoursWithinBounds
    /\ PydeckHexagons =>
          IF MaxTotal(h3_agg) > 0
          THEN \A k \in 1..Len(drawn) :
                  drawn[k].TOTAL_ANNUAL = MaxTotal(h3_agg)
                      => drawn[k].color = <<255, 0, 0>>
          ELSE \A k \in 1..Len(drawn) : drawn[k].color = <<204, 153, 51>>

\* Two hexagons drawn: the one of the largest total in [255, 0, 0] and one
\* in a colour between the two ends of the scale.
C30_Witness ==
    /\ pc = "main_present" /\ PydeckHexagons
    /\ \E j, k \in 1..Len(drawn) :
          /\ drawn[k].TOTAL_ANNUAL = MaxTotal(h3_agg)
          /\ drawn[k].color = <<255, 0, 0>>
          /\ drawn[j].color[1] \in 205..254

====
